---- MODULE Spec2Model ----
(***************************************************************************)
(* Process supervisor (SocoCliService) and serialized command dispatcher   *)
(* (SonosCommandService, MacroService) of Sndctl, as a state machine.      *)
(*                                                                         *)
(* Scheduling: one asyncio event loop.  A coroutine runs without           *)
(* interruption from one suspension point to the next, so every action     *)
(* below is the code between two awaits that really suspend:               *)
(* asyncio.sleep, an HTTP call, or waiting for a lock that is held.        *)
(* Acquiring a free asyncio.Lock and awaiting a coroutine that returns     *)
(* without suspending do not yield to the loop.  stop_server is a plain    *)
(* (blocking) function, hence one step.                                    *)
(***************************************************************************)
EXTENDS Integers, Sequences, FiniteSets, TLC

\* ---------------------------------------------------------------- bounds
NumTasks == 2
MaxSpawns == 2

Tasks == 1..NumTasks

\* ------------------------------------------------------ program constants
\* for i in range(10)
MaxProbes == 10
\* self._process = None / self._started_at = None
None == 0
\* asyncio.Lock(), not locked
Unlocked == 0
\* exit_code=-1: the HTTP call raised instead of answering
TransportError == -1

DispatcherOps == {"execute_command", "get_speakers", "rediscover_speakers"}
MacroOps == {"execute_macro", "reload_macros"}

VARIABLES
    process,          \* SocoCliService._process: None or the pid of the Popen handle
    started_at,       \* SocoCliService._started_at: None or the time of the spawn
    start_lock,       \* SocoCliService._start_lock: Unlocked or the task holding it
    start_waiters,    \* tasks suspended in _start_lock.acquire(), FIFO
    is_starting,      \* SocoCliService._is_starting
    alive,            \* operating system: pids of spawned servers still running
    spawnCount,       \* number of subprocess.Popen calls that succeeded
    request_lock,     \* SonosCommandService._request_lock: Unlocked or the holder
    request_waiters,  \* tasks suspended in _request_lock.acquire(), FIFO
    pc,               \* per task: the await it is suspended at, or "idle"
    op,               \* per task: the service method its caller invoked
    i,                \* per task: start_server's loop iteration, 1-based
    probes,           \* per task: readiness GETs issued by this start_server call
    response,         \* per task: start_server's local `response`, None while unbound
    returned,         \* the most recent return of a service method
    request,          \* execute_command's arguments: speaker, action, args
    reply,            \* what client.get(url) did for that request
    url,              \* the target URL execute_command built, "" before the call
    command_result,   \* the SocoCliResponse execute_command returned, {} before
    speaker_info,     \* get_speaker_info's local `speaker`
    probe,            \* get_speaker_info: index of its next sub-command, 0 once returned
    gets,             \* per task: command GETs SonosCommandService sent in the current call
    queue_results,    \* get_queue: results of the list_queue commands dispatched so far
    queue_response,   \* get_queue: the dict it returned, {} while it has not
    path_env,         \* _get_executable_path: the settings and file system it runs in
    resolved,         \* what _get_executable_path did, {} before the call
    settings,         \* get_settings(): upgrade_enabled, upgrade_ring, sndctl_server_url set
    upgrade_state,    \* UpgradeService._state: status, error_message, pending_version
    upgrade_lock,     \* UpgradeService._lock: Unlocked or the task holding it
    upgrade_waiters,  \* tasks suspended in _lock.acquire(), FIFO
    upgrade_pc,       \* per task: where its perform_upgrade call is suspended, or "idle"
    version_info,     \* per task: perform_upgrade's local version_info and its download
    download_path,    \* the file at download_path: "absent", "partial" or "verified"
    dpkg_runs,        \* the `sudo dpkg -i` invocations, each with the file it was given
    upgraded,         \* the most recent end of a perform_upgrade call and the endpoint's answer
    upgrade_calls,    \* number of perform_upgrade calls made
    mute_state,       \* the speaker's mute state at the soco-cli server: "on" or "off"
    mute_before,      \* the mute state before any toggle_mute call
    toggle_pc,        \* per task: where its toggle_mute call is suspended, or "idle"
    current_state,    \* per task: toggle_mute's local current_state.result
    toggle_log,       \* the mute commands that reached the server, in order
    macros_file,      \* the macros file, as its lines
    macro_pc,         \* per task: "reload" while its macro call awaits reload_macros
    macro_call,       \* per task: the macro call under way and its local `content`
    macro_log,        \* the save and delete calls that passed their read, in order
    macro_returned    \* the most recent return of save_, delete_ or duplicate_macro

supVars == <<process, started_at, start_lock, start_waiters, is_starting, alive, spawnCount>>
dispVars == <<request_lock, request_waiters>>
taskVars == <<pc, op, i, probes, response, gets>>
cmdVars == <<request, reply, url, command_result, speaker_info, probe>>
queueVars == <<queue_results, queue_response>>
pathVars == <<path_env, resolved>>
upgradeVars == <<settings, upgrade_state, upgrade_lock, upgrade_waiters, upgrade_pc,
                 version_info, download_path, dpkg_runs, upgraded, upgrade_calls>>
toggleVars == <<mute_state, mute_before, toggle_pc, current_state, toggle_log>>
macroVars == <<macros_file, macro_pc, macro_call, macro_log, macro_returned>>
routerVars == <<toggleVars, macroVars>>
extVars == <<queueVars, pathVars, upgradeVars, routerVars>>
vars == <<process, started_at, start_lock, start_waiters, is_starting, alive, spawnCount,
          request_lock, request_waiters, pc, op, i, probes, response, returned,
          request, reply, url, command_result, speaker_info, probe, gets,
          queue_results, queue_response, path_env, resolved,
          settings, upgrade_state, upgrade_lock, upgrade_waiters, upgrade_pc,
          version_info, download_path, dpkg_runs, upgraded, upgrade_calls,
          mute_state, mute_before, toggle_pc, current_state, toggle_log,
          macros_file, macro_pc, macro_call, macro_log, macro_returned>>

\* A return event: the function, the return statement taken, the value, and for
\* start_server the probes issued and the iteration reached.
Ret(fn, via, value, n, k) ==
    [fn |-> fn, via |-> via, value |-> value, probes |-> n, iter |-> k]

\* Variant of is_running: the poll() test inverted (`is not None`).
is_running_PollInverted ==
    IF process = None THEN FALSE ELSE process \notin alive

\* ------------------------------------------------------------- supervisor
is_running ==
    IF process = None THEN FALSE ELSE process \in alive

\* The supervised server answers only while one of the spawned processes lives.
Responses ==
    IF alive # {} THEN {200, 500, TransportError} ELSE {TransportError}

\* ------------------------------------------------------- Python strings
UpperCase == "ABCDEFGHIJKLMNOPQRSTUVWXYZ"
LowerCase == "abcdefghijklmnopqrstuvwxyz"

Char(s, k) == SubSeq(s, k, k)

\* `sub in s`
Contains(s, sub) ==
    \E k \in 1..(Len(s) - Len(sub) + 1) : SubSeq(s, k, k + Len(sub) - 1) = sub

LowerChar(c) ==
    IF Contains(UpperCase, c)
    THEN Char(LowerCase, CHOOSE k \in 1..Len(UpperCase) : Char(UpperCase, k) = c)
    ELSE c

\* str.lower()
RECURSIVE lower(_)
lower(s) ==
    IF s = "" THEN "" ELSE LowerChar(Char(s, 1)) \o lower(SubSeq(s, 2, Len(s)))

\* urllib.parse.quote: letters, digits and "_.-~" are never quoted, and neither
\* is "/" because quote's default is safe='/'.
AlwaysSafe == UpperCase \o LowerCase \o "0123456789_.-~"

\* "%XX" of the other characters that occur in the inputs below.
PercentCode == (" " :> "%20") @@ ("%" :> "%25")

QuoteChar(c) ==
    IF Contains(AlwaysSafe \o "/", c) THEN c ELSE PercentCode[c]

\* quote(s), as execute_command calls it (one argument)
RECURSIVE quote(_)
quote(s) ==
    IF s = "" THEN "" ELSE QuoteChar(Char(s, 1)) \o quote(SubSeq(s, 2, Len(s)))

\* ------------------------------------------------ execute_command, per call
\* bound: longest *args of a command
MaxArgs == 2

\* self._soco_cli_service.server_url
ServerUrl == "http://localhost:8000"

Speakers == {"Den", "Living Room", "AC/DC"}
Actions == {"volume", "play_uri"}
ArgValues == {"25", "50%", "a b"}
ArgLists == UNION {[1..n -> ArgValues] : n \in 0..MaxArgs}
Requests == [speaker : Speakers, action : Actions, args : ArgLists]
NoRequest == [speaker |-> "", action |-> "", args |-> <<>>]

\* A JSON object: each key is absent ({}) or present with one value.
AbsentBody ==
    [speaker |-> {}, action |-> {}, args |-> {}, exit_code |-> {}, result |-> {},
     error_msg |-> {}]
JsonBodies ==
    [speaker : {{}, {"Bedroom"}}, action : {{}, {"vol"}}, args : {{}, {<<"30">>}},
     exit_code : {{}, {1}}, result : {{}, {"25"}}, error_msg : {{}, {"Speaker not found"}}]

\* client.get(url) raised: str(e) is `text`.
Raises(cause, text) ==
    [kind |-> "exception", cause |-> cause, status |-> 0, text |-> text, body |-> AbsentBody]
\* The server answered with a status other than 200.
Answers(status) ==
    [kind |-> "status", cause |-> "none", status |-> status, text |-> "", body |-> AbsentBody]
\* The server answered 200 and response.json() or result.get raised: str(e) is `text`.
BadBody(text) ==
    [kind |-> "bad_body", cause |-> "none", status |-> 200, text |-> text, body |-> AbsentBody]
\* The server answered 200 with a JSON object.
JsonObject(body) ==
    [kind |-> "json", cause |-> "none", status |-> 200, text |-> "", body |-> body]
NoReply ==
    [kind |-> "none", cause |-> "none", status |-> 0, text |-> "", body |-> AbsentBody]

\* str(e) of the exception the HTTP client raises when the connection is refused:
\* the text is the client library's, either its own summary or the OS error's.
ConnectionRefusedTexts == {"All connection attempts failed", "[Errno 111] Connection refused"}
\* The client's timeout exceptions carry no message.
TimeoutTexts == {""}
DnsTexts == {"[Errno -2] Name or service not known"}
BadBodyTexts ==
    {"Expecting value: line 1 column 1 (char 0)", "'list' object has no attribute 'get'"}
ErrorStatuses == {404, 500}

Replies ==
    {Raises("connection_refused", x) : x \in ConnectionRefusedTexts}
        \cup {Raises("timeout", x) : x \in TimeoutTexts}
        \cup {Raises("dns", x) : x \in DnsTexts}
        \cup {Answers(s) : s \in ErrorStatuses}
        \cup {BadBody(x) : x \in BadBodyTexts}
        \cup {JsonObject(b) : b \in JsonBodies}

\* SocoCliResponse: a field the caller does not pass is the empty string.
SocoCliResponseDefaults == [result |-> "", error_msg |-> ""]

\* result.get(key, default)
Get(field, default) ==
    IF field = {} THEN default ELSE CHOOSE v \in field : TRUE

\* Variant of HttpErrorResult: response.raise_for_status() instead of the status
\* test, so a non-200 answer ends in the except clause.
HttpErrorResult_RaiseForStatus(speaker, action, args, status) ==
    [raised |-> FALSE, speaker |-> speaker, action |-> action, args |-> args,
     exit_code |-> TransportError, result |-> SocoCliResponseDefaults.result,
     error_msg |-> "HTTP " \o ToString(status)]

\* if response.status_code != 200: return SocoCliResponse(...)
HttpErrorResult(speaker, action, args, status) ==
    [raised |-> FALSE, speaker |-> speaker, action |-> action, args |-> args,
     exit_code |-> status, result |-> SocoCliResponseDefaults.result,
     error_msg |-> "HTTP " \o ToString(status)]

\* Variant of ParsedResult: the request's speaker, action and args are returned
\* whatever the body says.
ParsedResult_RequestEchoed(speaker, action, args, body) ==
    [raised |-> FALSE, speaker |-> speaker, action |-> action, args |-> args,
     exit_code |-> Get(body.exit_code, 0), result |-> Get(body.result, ""),
     error_msg |-> Get(body.error_msg, "")]

\* result = response.json(); return SocoCliResponse(speaker=result.get(...), ...)
ParsedResult(speaker, action, args, body) ==
    [raised |-> FALSE, speaker |-> Get(body.speaker, speaker),
     action |-> Get(body.action, action), args |-> Get(body.args, args),
     exit_code |-> Get(body.exit_code, 0), result |-> Get(body.result, ""),
     error_msg |-> Get(body.error_msg, "")]

\* Variant of ExceptionResult: no except clause, the exception reaches the caller.
ExceptionResult_Propagates(speaker, action, args, text) ==
    [raised |-> TRUE, speaker |-> speaker, action |-> action, args |-> args,
     exit_code |-> TransportError, result |-> SocoCliResponseDefaults.result,
     error_msg |-> text]

\* except Exception as e: return SocoCliResponse(..., exit_code=-1, error_msg=str(e))
ExceptionResult(speaker, action, args, text) ==
    [raised |-> FALSE, speaker |-> speaker, action |-> action, args |-> args,
     exit_code |-> TransportError, result |-> SocoCliResponseDefaults.result,
     error_msg |-> text]

\* What execute_command returns for a reply of the server: the try block.
CommandResult(speaker, action, args, r) ==
    IF r.kind = "exception" THEN ExceptionResult(speaker, action, args, r.text)
    ELSE IF r.status # 200 THEN HttpErrorResult(speaker, action, args, r.status)
    ELSE IF r.kind = "bad_body" THEN ExceptionResult(speaker, action, args, r.text)
    ELSE ParsedResult(speaker, action, args, r.body)

\* "/".join(quote(arg) for arg in args), args not empty
RECURSIVE JoinQuoted(_)
JoinQuoted(args) ==
    IF Len(args) = 1 THEN quote(args[1])
    ELSE quote(args[1]) \o "/" \o JoinQuoted(Tail(args))

\* url = f"{server_url}/{quote(speaker)}/{quote(action)}" and the encoded args
TargetUrl(speaker, action, args) ==
    LET base == ServerUrl \o "/" \o quote(speaker) \o "/" \o quote(action)
    IN  IF args # <<>> THEN base \o "/" \o JoinQuoted(args) ELSE base

\* ---------------------------------------------------- offline classification
OfflineMarkers ==
    {"timed out", "timeout", "connection refused", "unreachable", "no route to host",
     "network is unreachable", "connecttimeouterror", "max retries exceeded"}

is_timeout_or_connection_error(error_msg) ==
    IF error_msg = "" THEN FALSE
    ELSE \E m \in OfflineMarkers : Contains(lower(error_msg), m)

\* SocoCliService, SonosCommandService and the tasks after construction.
ServicesInit ==
    /\ process = None
    /\ started_at = None
    /\ start_lock = Unlocked
    /\ start_waiters = <<>>
    /\ is_starting = FALSE
    /\ alive = {}
    /\ spawnCount = 0
    /\ request_lock = Unlocked
    /\ request_waiters = <<>>
    /\ pc = [t \in Tasks |-> "idle"]
    /\ op = [t \in Tasks |-> "none"]
    /\ i = [t \in Tasks |-> 0]
    /\ probes = [t \in Tasks |-> 0]
    /\ response = [t \in Tasks |-> None]
    /\ gets = [t \in Tasks |-> 0]
    /\ returned = Ret("none", "none", "none", 0, 0)

\* Speaker(name=speaker_name): nothing known yet, not offline.
Speaker(name) ==
    [name |-> name, is_muted |-> {}, playback_state |-> {}, current_track |-> {},
     is_offline |-> FALSE, error_message |-> {}]

\* No command issued and no get_speaker_info under way.
CommandsInit ==
    /\ request = NoRequest
    /\ reply = NoReply
    /\ url = ""
    /\ command_result = {}
    /\ speaker_info = Speaker("")
    /\ probe = 0

\* A host with no setting, nothing installed and `which` finding nothing.
BareHost ==
    [configured |-> "", home |-> "/root", present |-> {}, denied |-> {},
     which |-> [raised |-> FALSE, returncode |-> 1, stdout |-> ""]]

\* perform_upgrade's locals before the update server has named a version.
NoVersion == [min_ring |-> 0, download |-> "none"]

\* No perform_upgrade call has ended yet.
NotUpgraded == [task |-> 0, value |-> "none", answer |-> "none"]

\* UpgradeService.__init__ under the settings s, with no package downloaded.
UpgradeInit(s) ==
    /\ settings = s
    /\ upgrade_state = [status |-> "idle", error_message |-> "", pending_version |-> ""]
    /\ upgrade_lock = Unlocked
    /\ upgrade_waiters = <<>>
    /\ upgrade_pc = [t \in Tasks |-> "idle"]
    /\ version_info = [t \in Tasks |-> NoVersion]
    /\ download_path = "absent"
    /\ dpkg_runs = {}
    /\ upgraded = NotUpgraded
    /\ upgrade_calls = 0

\* No macro call under way.
NoMacroCall == [fn |-> "none", name |-> "", definition |-> "", content |-> <<>>]

\* No toggle_mute and no macro call under way; the speaker's mute state is
\* muted and the macros file holds the lines `file`.
RouterInit(muted, file) ==
    /\ mute_state = muted
    /\ mute_before = muted
    /\ toggle_pc = [t \in Tasks |-> "idle"]
    /\ current_state = [t \in Tasks |-> ""]
    /\ toggle_log = <<>>
    /\ macros_file = file
    /\ macro_pc = [t \in Tasks |-> "idle"]
    /\ macro_call = [t \in Tasks |-> NoMacroCall]
    /\ macro_log = <<>>
    /\ macro_returned = [fn |-> "none", value |-> "none"]

\* The file _ensure_macros_file_exists writes when there is none.
DefaultMacrosFile ==
    <<"# SonosSoundHub Macros",
      "# Format: macro_name = speaker action args : speaker action args",
      "# Example: morning = Kitchen volume 40 : Kitchen play_favourite \"Radio 4\"",
      "">>

\* No router call under way, no path resolved, upgrades disabled.
ExtInit ==
    /\ queue_results = <<>>
    /\ queue_response = {}
    /\ path_env = BareHost
    /\ resolved = {}
    /\ UpgradeInit([upgrade_enabled |-> FALSE, upgrade_ring |-> 3, sndctl_server_url |-> FALSE])
    /\ RouterInit("off", DefaultMacrosFile)

Init ==
    /\ ServicesInit
    /\ CommandsInit
    /\ ExtInit

\* The task suspends at an await inside start_server.
Suspend(t, o, at, k, n, rsp) ==
    /\ pc' = [pc EXCEPT ![t] = at]
    /\ op' = [op EXCEPT ![t] = o]
    /\ i' = [i EXCEPT ![t] = k]
    /\ probes' = [probes EXCEPT ![t] = n]
    /\ response' = [response EXCEPT ![t] = rsp]
    /\ UNCHANGED <<request_lock, request_waiters, returned, gets, cmdVars, extVars>>

\* The service method returns to its caller (or raises into it).
Finish(t, r) ==
    /\ pc' = [pc EXCEPT ![t] = "idle"]
    /\ op' = [op EXCEPT ![t] = "none"]
    /\ i' = [i EXCEPT ![t] = 0]
    /\ probes' = [probes EXCEPT ![t] = 0]
    /\ response' = [response EXCEPT ![t] = None]
    /\ gets' = [gets EXCEPT ![t] = 0]
    /\ returned' = r
    /\ UNCHANGED <<cmdVars, extVars>>

\* Variant of AcquireRequestLock: the GET is sent without waiting for the lock.
AcquireRequestLock_NoWait(t, o, r) ==
    /\ request_lock' = t
    /\ UNCHANGED request_waiters
    /\ pc' = [pc EXCEPT ![t] = "request_http"]
    /\ gets' = [gets EXCEPT ![t] = gets[t] + 1]
    /\ op' = [op EXCEPT ![t] = o]
    /\ i' = [i EXCEPT ![t] = 0]
    /\ probes' = [probes EXCEPT ![t] = 0]
    /\ response' = [response EXCEPT ![t] = None]
    /\ returned' = r
    /\ UNCHANGED <<cmdVars, extVars>>

\* async with self._request_lock: ... response = await client.get(url)
AcquireRequestLock(t, o, r) ==
    /\ IF request_lock = Unlocked /\ request_waiters = <<>>
       THEN /\ request_lock' = t
            /\ UNCHANGED request_waiters
            /\ pc' = [pc EXCEPT ![t] = "request_http"]
            /\ gets' = [gets EXCEPT ![t] = gets[t] + 1]
       ELSE /\ request_waiters' = Append(request_waiters, t)
            /\ UNCHANGED <<request_lock, gets>>
            /\ pc' = [pc EXCEPT ![t] = "request_wait_lock"]
    /\ op' = [op EXCEPT ![t] = o]
    /\ i' = [i EXCEPT ![t] = 0]
    /\ probes' = [probes EXCEPT ![t] = 0]
    /\ response' = [response EXCEPT ![t] = None]
    /\ returned' = r
    /\ UNCHANGED <<cmdVars, extVars>>

\* MacroService: client = await self._get_client(); response = await client.get(url)
SendMacroRequest(t, o, r) ==
    /\ pc' = [pc EXCEPT ![t] = "macro_http"]
    /\ op' = [op EXCEPT ![t] = o]
    /\ i' = [i EXCEPT ![t] = 0]
    /\ probes' = [probes EXCEPT ![t] = 0]
    /\ response' = [response EXCEPT ![t] = None]
    /\ returned' = r
    /\ UNCHANGED <<gets, cmdVars, extVars>>
    /\ UNCHANGED <<request_lock, request_waiters>>

\* What the caller of ensure_server_running / start_server does once it returned.
AfterEnsure(t, o, r) ==
    CASE o \in DispatcherOps -> AcquireRequestLock(t, o, r)
      [] o \in MacroOps -> SendMacroRequest(t, o, r)
      [] OTHER -> Finish(t, r) /\ UNCHANGED <<request_lock, request_waiters>>

\* Variant of StartLocked: _is_starting is reset on the success paths only (no
\* finally), so an exception while resolving or spawning leaves it set.
StartLocked_NoFinally(t, o, w) ==
    IF is_running \/ is_starting
    THEN /\ start_lock' = Unlocked
         /\ start_waiters' = w
         /\ UNCHANGED <<process, started_at, is_starting, alive, spawnCount>>
         /\ AfterEnsure(t, o, Ret("start_server", "already", "true", 0, 0))
    ELSE \/ /\ spawnCount < MaxSpawns
            /\ process' = spawnCount + 1
            /\ started_at' = spawnCount + 1
            /\ alive' = alive \cup {spawnCount + 1}
            /\ spawnCount' = spawnCount + 1
            /\ is_starting' = TRUE
            /\ start_lock' = t
            /\ start_waiters' = w
            /\ Suspend(t, o, "start_sleep", 1, 0, None)
         \/ /\ start_lock' = Unlocked
            /\ start_waiters' = w
            /\ is_starting' = TRUE
            /\ UNCHANGED <<process, started_at, alive, spawnCount>>
            /\ AfterEnsure(t, o, Ret("start_server", "exception", "false", 0, 0))

\* ------------------------------------------------------------ start_server
\* The body of `async with self._start_lock`, entered with the lock held and w the
\* tasks still waiting for it: the re-check, the spawn, the first await of the loop.
StartLocked(t, o, w) ==
    IF is_running \/ is_starting
    THEN /\ start_lock' = Unlocked
         /\ start_waiters' = w
         /\ UNCHANGED <<process, started_at, is_starting, alive, spawnCount>>
         /\ AfterEnsure(t, o, Ret("start_server", "already", "true", 0, 0))
    ELSE \/ /\ spawnCount < MaxSpawns
            /\ process' = spawnCount + 1
            /\ started_at' = spawnCount + 1
            /\ alive' = alive \cup {spawnCount + 1}
            /\ spawnCount' = spawnCount + 1
            /\ is_starting' = TRUE
            /\ start_lock' = t
            /\ start_waiters' = w
            /\ Suspend(t, o, "start_sleep", 1, 0, None)
         \/ /\ start_lock' = Unlocked
            /\ start_waiters' = w
            /\ is_starting' = FALSE
            /\ UNCHANGED <<process, started_at, alive, spawnCount>>
            /\ AfterEnsure(t, o, Ret("start_server", "exception", "false", 0, 0))

\* async with self._start_lock: taken at once when free, else the task queues.
AcquireStartLock(t, o) ==
    IF start_lock = Unlocked /\ start_waiters = <<>>
    THEN StartLocked(t, o, start_waiters)
    ELSE /\ start_waiters' = Append(start_waiters, t)
         /\ UNCHANGED <<process, started_at, start_lock, is_starting, alive, spawnCount>>
         /\ Suspend(t, o, "start_wait_lock", 0, 0, None)

\* Variant of StartServerBody: no quick check, every call goes through the lock.
StartServerBody_NoFastPath(t, o) ==
    AcquireStartLock(t, o)

\* start_server from its first line: the quick check without the lock.
StartServerBody(t, o) ==
    IF is_running
    THEN /\ UNCHANGED supVars
         /\ AfterEnsure(t, o, Ret("start_server", "fast", "true", 0, 0))
    ELSE AcquireStartLock(t, o)

\* A task queued on the start lock is woken: the lock is free and it is first.
ResumeStartWaiter(t) ==
    /\ pc[t] = "start_wait_lock"
    /\ start_lock = Unlocked
    /\ start_waiters # <<>>
    /\ Head(start_waiters) = t
    /\ StartLocked(t, op[t], Tail(start_waiters))

\* Variant of StartLeave: the start lock is still held when start_server returns.
StartLeave_KeepsLock(t, via, value, n, k) ==
    /\ is_starting' = FALSE
    /\ UNCHANGED <<process, started_at, start_lock, start_waiters, alive, spawnCount>>
    /\ AfterEnsure(t, op[t], Ret("start_server", via, value, n, k))

\* Variant of StartLeave: the lock is released without the reset of _is_starting.
StartLeave_KeepsFlag(t, via, value, n, k) ==
    /\ start_lock' = Unlocked
    /\ UNCHANGED <<process, started_at, start_waiters, is_starting, alive, spawnCount>>
    /\ AfterEnsure(t, op[t], Ret("start_server", via, value, n, k))

\* start_server leaves the `try` from inside the loop: finally, then lock release.
StartLeave(t, via, value, n, k) ==
    /\ is_starting' = FALSE
    /\ start_lock' = Unlocked
    /\ UNCHANGED <<process, started_at, start_waiters, alive, spawnCount>>
    /\ AfterEnsure(t, op[t], Ret("start_server", via, value, n, k))

\* Variant of StartWake: the readiness GET is sent without the exit check.
StartWake_NoExitCheck(t) ==
    /\ pc[t] = "start_sleep"
    /\ UNCHANGED supVars
    /\ Suspend(t, op[t], "start_probe", i[t], probes[t] + 1, response[t])

\* asyncio.sleep(1) is over: the exit check, then the readiness GET is sent.
StartWake(t) ==
    /\ pc[t] = "start_sleep"
    /\ IF ~is_running
       THEN StartLeave(t, "exited", "false", probes[t], i[t])
       ELSE /\ UNCHANGED supVars
            /\ Suspend(t, op[t], "start_probe", i[t], probes[t] + 1, response[t])

\* The value of the local `response` after client.get: the status answered, or
\* what it held before when the call raised (except Exception: log and go on).
Bound(old, status) ==
    IF status = TransportError THEN old ELSE status

\* Variant of StartProbeDone: a 200 answer does not end the loop.
StartProbeDone_NoEarlyReturn(t) ==
    /\ pc[t] = "start_probe"
    /\ \E status \in Responses :
        IF i[t] < MaxProbes
        THEN /\ UNCHANGED supVars
             /\ Suspend(t, op[t], "start_sleep", i[t] + 1, probes[t],
                        Bound(response[t], status))
        ELSE StartLeave(t, "unresponsive", "true", probes[t], i[t])

\* Variant of StartProbeDone: ten failed probes are reported as a failure.
StartProbeDone_StrictTimeout(t) ==
    /\ pc[t] = "start_probe"
    /\ \E status \in Responses :
        IF status = 200
        THEN StartLeave(t, "responsive", "true", probes[t], i[t])
        ELSE IF i[t] < MaxProbes
             THEN /\ UNCHANGED supVars
                  /\ Suspend(t, op[t], "start_sleep", i[t] + 1, probes[t],
                             Bound(response[t], status))
             ELSE StartLeave(t, "unresponsive", "false", probes[t], i[t])

\* The readiness GET completes with a status, or raises.
StartProbeDone(t) ==
    /\ pc[t] = "start_probe"
    /\ \E status \in Responses :
        IF status = 200
        THEN StartLeave(t, "responsive", "true", probes[t], i[t])
        ELSE IF i[t] < MaxProbes
             THEN /\ UNCHANGED supVars
                  /\ Suspend(t, op[t], "start_sleep", i[t] + 1, probes[t],
                             Bound(response[t], status))
             ELSE StartLeave(t, "unresponsive", "true", probes[t], i[t])

start_server(t) ==
    /\ pc[t] = "idle"
    /\ StartServerBody(t, "start_server")

\* ---------------------------------------------------- ensure_server_running
\* Variant of EnsureBody: start_server is awaited without testing is_running.
EnsureBody_AlwaysStart(t, o) ==
    StartServerBody(t, o)

EnsureBody(t, o) ==
    IF ~is_running
    THEN StartServerBody(t, o)
    ELSE /\ UNCHANGED supVars
         /\ AfterEnsure(t, o, Ret("ensure_server_running", "running", "none", 0, 0))

ensure_server_running(t) ==
    /\ pc[t] = "idle"
    /\ EnsureBody(t, "ensure_server_running")

\* ------------------------------------------------------------- stop_server
\* terminate(), wait(timeout=5) returns: the process is gone.
StopGraceful ==
    /\ alive' = alive \ {process}
    /\ returned' = Ret("stop_server", "graceful", "true", 0, 0)

\* wait raises TimeoutExpired, kill() succeeds.
StopForceKill ==
    /\ process \in alive
    /\ alive' = alive \ {process}
    /\ returned' = Ret("stop_server", "killed", "true", 0, 0)

\* terminate() or wait() raises something else: except Exception.
StopException ==
    /\ UNCHANGED alive
    /\ returned' = Ret("stop_server", "exception", "false", 0, 0)

\* wait raises TimeoutExpired and kill() raises inside that handler: no sibling
\* except clause applies, the exception leaves stop_server after the finally.
StopKillRaises ==
    /\ process \in alive
    /\ UNCHANGED alive
    /\ returned' = Ret("stop_server", "kill_raised", "raised", 0, 0)

\* Variant of stop_server: the handle is cleared on the paths that return True
\* only (no finally).
stop_server_NoFinally(t) ==
    /\ pc[t] = "idle"
    /\ IF process = None
       THEN /\ returned' = Ret("stop_server", "no_process", "true", 0, 0)
            /\ UNCHANGED <<process, started_at, alive>>
       ELSE \/ /\ \/ StopGraceful
                  \/ StopForceKill
               /\ process' = None
               /\ started_at' = None
            \/ /\ \/ StopException
                  \/ StopKillRaises
               /\ UNCHANGED <<process, started_at>>
    /\ UNCHANGED <<start_lock, start_waiters, is_starting, spawnCount>>
    /\ UNCHANGED <<dispVars, taskVars, cmdVars, extVars>>

stop_server(t) ==
    /\ pc[t] = "idle"
    /\ IF process = None
       THEN /\ returned' = Ret("stop_server", "no_process", "true", 0, 0)
            /\ UNCHANGED <<process, started_at, alive>>
       ELSE /\ \/ StopGraceful
               \/ StopForceKill
               \/ StopException
               \/ StopKillRaises
            /\ process' = None
            /\ started_at' = None
    /\ UNCHANGED <<start_lock, start_waiters, is_starting, spawnCount>>
    /\ UNCHANGED <<dispVars, taskVars, cmdVars, extVars>>

\* The supervised subprocess exits on its own.
ProcessExit ==
    /\ \E p \in alive : alive' = alive \ {p}
    /\ UNCHANGED <<process, started_at, start_lock, start_waiters, is_starting, spawnCount>>
    /\ UNCHANGED <<dispVars, taskVars, returned, cmdVars, extVars>>

\* -------------------------------------------------------------- dispatcher
execute_command(t) ==
    /\ pc[t] = "idle"
    /\ EnsureBody(t, "execute_command")

get_speakers(t) ==
    /\ pc[t] = "idle"
    /\ EnsureBody(t, "get_speakers")

rediscover_speakers(t) ==
    /\ pc[t] = "idle"
    /\ EnsureBody(t, "rediscover_speakers")

\* A task queued on the request lock is woken, takes it and sends its GET.
ResumeRequestWaiter(t) ==
    /\ pc[t] = "request_wait_lock"
    /\ request_lock = Unlocked
    /\ request_waiters # <<>>
    /\ Head(request_waiters) = t
    /\ request_lock' = t
    /\ request_waiters' = Tail(request_waiters)
    /\ pc' = [pc EXCEPT ![t] = "request_http"]
    /\ gets' = [gets EXCEPT ![t] = gets[t] + 1]
    /\ UNCHANGED <<supVars, op, i, probes, response, returned, cmdVars, extVars>>

\* What a dispatcher method returns for a status (TransportError: client.get raised).
DispatchResult(o, status) ==
    IF status = 200 THEN Ret(o, "200", "parsed", 0, 0)
    ELSE IF status = TransportError THEN Ret(o, "exception", "failed", 0, 0)
    ELSE Ret(o, "non200", "failed", 0, 0)

\* Variant of RequestDone: the lock is released on the 200 path only.
RequestDone_LeakOnFailure(t) ==
    /\ pc[t] = "request_http"
    /\ \E status \in Responses :
        /\ Finish(t, DispatchResult(op[t], status))
        /\ request_lock' = IF status = 200 THEN Unlocked ELSE request_lock
    /\ UNCHANGED <<supVars, request_waiters>>

\* Variant of RequestDone: a transport error is retried once before returning.
RequestDone_RetryOnError(t) ==
    /\ pc[t] = "request_http"
    /\ \E status \in Responses :
         IF status = TransportError /\ gets[t] < 2
         THEN /\ gets' = [gets EXCEPT ![t] = gets[t] + 1]
              /\ UNCHANGED <<pc, op, i, probes, response, returned, request_lock,
                             cmdVars, extVars>>
         ELSE /\ Finish(t, DispatchResult(op[t], status))
              /\ request_lock' = Unlocked
    /\ UNCHANGED <<supVars, request_waiters>>

\* The GET completes; the method returns and `async with` releases the lock.
RequestDone(t) ==
    /\ pc[t] = "request_http"
    /\ \E status \in Responses : Finish(t, DispatchResult(op[t], status))
    /\ request_lock' = Unlocked
    /\ UNCHANGED <<supVars, request_waiters>>

\* ------------------------------------------------------------ MacroService
execute_macro(t) ==
    /\ pc[t] = "idle"
    /\ EnsureBody(t, "execute_macro")

reload_macros(t) ==
    /\ pc[t] = "idle"
    /\ EnsureBody(t, "reload_macros")

\* execute_macro re-raises on failure; reload_macros answers False.
MacroResult(o, status) ==
    IF o = "execute_macro"
    THEN IF status = 200 THEN Ret(o, "200", "json", 0, 0) ELSE Ret(o, "exception", "raised", 0, 0)
    ELSE IF status = 200 THEN Ret(o, "200", "true", 0, 0) ELSE Ret(o, "failed", "false", 0, 0)

MacroDone(t) ==
    /\ pc[t] = "macro_http"
    /\ \E status \in Responses : Finish(t, MacroResult(op[t], status))
    /\ UNCHANGED <<supVars, dispVars>>

\* -------------------------------------------------------------- next state
Next ==
    \/ \E t \in Tasks : start_server(t)
    \/ \E t \in Tasks : stop_server(t)
    \/ \E t \in Tasks : ensure_server_running(t)
    \/ \E t \in Tasks : ResumeStartWaiter(t)
    \/ \E t \in Tasks : StartWake(t)
    \/ \E t \in Tasks : StartProbeDone(t)
    \/ ProcessExit
    \/ \E t \in Tasks : execute_command(t)
    \/ \E t \in Tasks : get_speakers(t)
    \/ \E t \in Tasks : rediscover_speakers(t)
    \/ \E t \in Tasks : ResumeRequestWaiter(t)
    \/ \E t \in Tasks : RequestDone(t)
    \/ \E t \in Tasks : execute_macro(t)
    \/ \E t \in Tasks : reload_macros(t)
    \/ \E t \in Tasks : MacroDone(t)

Spec == Init /\ [][Next]_vars

\* The supervisor alone: its three entry points and the subprocess.
NextSup ==
    \/ \E t \in Tasks : start_server(t)
    \/ \E t \in Tasks : stop_server(t)
    \/ \E t \in Tasks : ensure_server_running(t)
    \/ \E t \in Tasks : ResumeStartWaiter(t)
    \/ \E t \in Tasks : StartWake(t)
    \/ \E t \in Tasks : StartProbeDone(t)
    \/ ProcessExit

SpecSup == Init /\ [][NextSup]_vars

\* The dispatcher and the macro service with the supervisor they drive through
\* ensure_server_running; the subprocess may exit at any time.
NextDisp ==
    \/ \E t \in Tasks : execute_command(t)
    \/ \E t \in Tasks : get_speakers(t)
    \/ \E t \in Tasks : rediscover_speakers(t)
    \/ \E t \in Tasks : ResumeRequestWaiter(t)
    \/ \E t \in Tasks : RequestDone(t)
    \/ \E t \in Tasks : ResumeStartWaiter(t)
    \/ \E t \in Tasks : StartWake(t)
    \/ \E t \in Tasks : StartProbeDone(t)
    \/ ProcessExit

SpecDisp == Init /\ [][NextDisp]_vars

TypeOK ==
    /\ process \in 0..MaxSpawns
    /\ started_at \in 0..MaxSpawns
    /\ start_lock \in 0..NumTasks
    /\ request_lock \in 0..NumTasks
    /\ is_starting \in BOOLEAN
    /\ alive \subseteq 1..MaxSpawns
    /\ spawnCount \in 0..MaxSpawns
    /\ \A t \in Tasks : i[t] \in 0..MaxProbes /\ probes[t] \in 0..MaxProbes
    /\ \A t \in Tasks : gets[t] \in 0..1

DispatcherInFlight == {t \in Tasks : pc[t] = "request_http"}

\* C2: the dispatcher never has two GETs in flight: a task whose GET is in flight
\* holds the request lock, whichever of execute_command, get_speakers and
\* rediscover_speakers the tasks run.
C2_OneDispatcherRequest ==
    /\ Cardinality(DispatcherInFlight) <= 1
    /\ \A t \in DispatcherInFlight : request_lock = t

\* One GET in flight while a call of another method waits for the lock.
C2_Witness ==
    \E t, u \in Tasks :
        /\ pc[t] = "request_http"
        /\ pc[u] = "request_wait_lock"
        /\ op[t] # op[u]

\* Every HTTP call to the supervised server that is in flight, whoever sent it.
ServerInFlight ==
    {t \in Tasks : pc[t] \in {"request_http", "macro_http", "start_probe"}}

\* C3: the supervised server, while one is alive to receive requests, has at most
\* one request in flight across dispatcher commands, macro execute/reload requests
\* and readiness probes.
C3_OneServerRequest ==
    alive # {} => Cardinality(ServerInFlight) <= 1

\* C4: every stop_server step leaves the handle and the start time cleared, so
\* is_running() right after it is false: graceful, force-kill and exception branch.
C4_StopClears ==
    [][(\E t \in Tasks : stop_server(t))
          => (process' = None /\ started_at' = None /\ ~is_running')]_vars

\* stop_server took the exception branch: the process still lives, the handle is gone.
C4_Witness ==
    /\ returned = Ret("stop_server", "exception", "false", 0, 0)
    /\ process = None
    /\ started_at = None
    /\ alive # {}

\* C5: stop_server always returns a boolean and never raises: True without a
\* handle, on graceful termination and on force-kill, False on any exception
\* raised while terminating, waiting or killing.
C5_StopReturnsBoolean ==
    returned.fn = "stop_server" =>
        /\ returned.value \in {"true", "false"}
        /\ returned.via \in {"no_process", "graceful", "killed"} => returned.value = "true"
        /\ returned.via \in {"exception", "kill_raised"} => returned.value = "false"

\* C6: start_server called while is_running() is true returns True on the quick
\* path: nothing spawned, the start lock untouched, handle and started_at unchanged.
C6_StartWhileRunning ==
    [][\A t \in Tasks :
          (start_server(t) /\ is_running)
              => /\ UNCHANGED <<process, started_at, start_lock, start_waiters,
                                is_starting, alive, spawnCount>>
                 /\ returned' = Ret("start_server", "fast", "true", 0, 0)
                 /\ pc'[t] = "idle"]_vars

\* The quick path was taken while another task held the start lock.
C6_Witness ==
    /\ is_running
    /\ returned = Ret("start_server", "fast", "true", 0, 0)
    /\ \E t \in Tasks : start_lock = t /\ pc[t] = "start_probe"

\* C7: a task that wakes in iteration k of the readiness loop and finds the process
\* not running returns False in that very step, having issued k-1 probes: no probe
\* in iteration k, no further iteration.
C7_ExitEndsStart ==
    [][\A t \in Tasks :
          (pc[t] = "start_sleep" /\ ~is_running /\ pc'[t] # "start_sleep")
              => /\ pc'[t] = "idle"
                 /\ returned' = Ret("start_server", "exited", "false", i[t] - 1, i[t])
                 /\ probes[t] = i[t] - 1]_vars

\* An immediate exit is reported at iteration 1, before any probe.
C7_Witness ==
    returned = Ret("start_server", "exited", "false", 0, 1)

\* C8: each iteration issues one probe, a task still in the loop has never been
\* answered 200, and a start_server that returned on a 200 at attempt k returned
\* True with exactly k probes issued.
C8_ReturnsAtFirst200 ==
    /\ \A t \in Tasks :
        /\ pc[t] \in {"start_sleep", "start_probe"} => response[t] # 200
        /\ pc[t] = "start_sleep" => probes[t] = i[t] - 1
        /\ pc[t] = "start_probe" => probes[t] = i[t]
    /\ returned.via = "responsive" =>
        /\ returned.value = "true"
        /\ returned.iter \in 1..MaxProbes
        /\ returned.probes = returned.iter

\* The server became responsive on attempt 3.
C8_Witness ==
    returned = Ret("start_server", "responsive", "true", 3, 3)

\* C9: ten iterations without a 200 end in True, and no start_server call issues
\* more than ten probes.
C9_LenientTimeout ==
    /\ \A t \in Tasks : probes[t] <= MaxProbes
    /\ returned.probes <= MaxProbes
    /\ returned.via = "unresponsive" =>
        /\ returned.value = "true"
        /\ returned.probes = MaxProbes
        /\ returned.iter = MaxProbes

\* Ten failed probes, the process still alive, start_server answered True.
C9_Witness ==
    /\ returned = Ret("start_server", "unresponsive", "true", MaxProbes, MaxProbes)
    /\ is_running
    /\ start_lock = Unlocked

\* A step in which task t's start_server ends by the `except Exception` path.
StartRaisedIn(t) ==
    /\ \/ start_server(t)
       \/ ensure_server_running(t)
       \/ ResumeStartWaiter(t)
    /\ pc'[t] = "idle"
    /\ returned'.via = "exception"

\* C10: an exception while resolving the executable or spawning makes
\* start_server return False; the start lock is free and _is_starting is False
\* after that step and nothing was spawned, so a later call can spawn.
C10_SpawnExceptionReturnsFalse ==
    [][\A t \in Tasks :
          StartRaisedIn(t)
              => /\ returned' = Ret("start_server", "exception", "false", 0, 0)
                 /\ start_lock' = Unlocked
                 /\ is_starting' = FALSE
                 /\ spawnCount' = spawnCount
                 /\ process' = process]_vars

\* After a start_server that failed on a spawn exception, a later call spawned.
C10_Witness ==
    /\ returned = Ret("start_server", "exception", "false", 0, 0)
    /\ \E t \in Tasks : start_lock = t /\ pc[t] = "start_sleep" /\ i[t] = 1
    /\ is_running

\* ------------------------------------------------------------- get_status
\* The snapshot get_status returns; "null" stands for a serverUrl of None.
get_status ==
    [isRunning |-> is_running,
     processId |-> IF process # None THEN process ELSE None,
     serverUrl |-> IF is_running THEN "soco_cli_url" ELSE "null",
     startedAt |-> IF started_at # None THEN started_at ELSE None]

\* C11: once start_server has observed in its polling loop that the subprocess is
\* not running (and returns False), the handle and started_at are cleared, as
\* after stop_server.
C11_HandleClearedOnExit ==
    [][\A t \in Tasks :
          (pc[t] = "start_sleep" /\ ~is_running /\ pc'[t] # "start_sleep")
              => (process' = None /\ started_at' = None)]_vars

\* C12: whenever get_status reports isRunning false, its processId and serverUrl
\* are null, also after the subprocess exited on its own.
C12_StatusNullWhenStopped ==
    ~get_status.isRunning =>
        (get_status.processId = None /\ get_status.serverUrl = "null")

\* C19: no task holds the start lock and the request lock together: the start
\* lock is held only inside start_server's loop, and a task that holds or waits
\* for one lock never holds the other.
C19_LocksNeverNested ==
    \A t \in Tasks :
        /\ ~(start_lock = t /\ request_lock = t)
        /\ start_lock = t => pc[t] \in {"start_sleep", "start_probe"}
        /\ pc[t] \in {"request_http", "request_wait_lock"} => start_lock # t
        /\ pc[t] \in {"start_sleep", "start_probe", "start_wait_lock"} => request_lock # t

\* Both locks are held at the same time, by different tasks.
C19_Witness ==
    \E t, u \in Tasks :
        /\ t # u
        /\ start_lock = t
        /\ pc[t] = "start_probe"
        /\ request_lock = u
        /\ pc[u] = "request_http"

\* The event loop runs every task that is ready, and every GET ends (answer,
\* error or the 30 s timeout).
FairDisp ==
    \A t \in Tasks : WF_vars(RequestDone(t)) /\ WF_vars(ResumeRequestWaiter(t))

SpecDispFair == Init /\ [][NextDisp]_vars /\ FairDisp

\* The dispatcher with the server already started and staying up: every
\* ensure_server_running returns at once, callers meet only at the request lock.
InitServing ==
    /\ process = 1
    /\ started_at = 1
    /\ alive = {1}
    /\ spawnCount = 1
    /\ start_lock = Unlocked
    /\ start_waiters = <<>>
    /\ is_starting = FALSE
    /\ request_lock = Unlocked
    /\ request_waiters = <<>>
    /\ pc = [t \in Tasks |-> "idle"]
    /\ op = [t \in Tasks |-> "none"]
    /\ i = [t \in Tasks |-> 0]
    /\ probes = [t \in Tasks |-> 0]
    /\ response = [t \in Tasks |-> None]
    /\ gets = [t \in Tasks |-> 0]
    /\ returned = Ret("start_server", "responsive", "true", 1, 1)
    /\ CommandsInit
    /\ ExtInit

NextServing ==
    \/ \E t \in Tasks : execute_command(t)
    \/ \E t \in Tasks : get_speakers(t)
    \/ \E t \in Tasks : rediscover_speakers(t)
    \/ \E t \in Tasks : ResumeRequestWaiter(t)
    \/ \E t \in Tasks : RequestDone(t)

SpecServingFair == InitServing /\ [][NextServing]_vars /\ FairDisp

\* C20: a completed GET releases the request lock whatever its outcome, and under
\* fair scheduling every caller waiting for the lock gets to send its own GET and
\* every GET in flight ends with the method returning.
C20_WaitersProgress ==
    /\ [][\A t \in Tasks : (pc[t] = "request_http" /\ pc'[t] = "idle")
                              => request_lock' = Unlocked]_vars
    /\ \A t \in Tasks : (pc[t] = "request_wait_lock") ~> (pc[t] = "request_http")
    /\ \A t \in Tasks : (pc[t] = "request_http") ~> (pc[t] = "idle")

\* A GET failed with a transport error, the lock is free and a waiter is next.
C20_Witness ==
    /\ returned.fn \in DispatcherOps
    /\ returned.via = "exception"
    /\ request_lock = Unlocked
    /\ request_waiters # <<>>

\* ===================================================================
\* execute_command as a function of its arguments and the server's reply
\* ===================================================================
\* One call of execute_command with the lock free and the server's reply given.
InitCmd ==
    /\ ServicesInit
    /\ request \in Requests
    /\ reply \in Replies
    /\ url = ""
    /\ command_result = {}
    /\ speaker_info = Speaker("")
    /\ probe = 0
    /\ ExtInit

ExecuteCommandCall ==
    /\ command_result = {}
    /\ url' = TargetUrl(request.speaker, request.action, request.args)
    /\ command_result' = {CommandResult(request.speaker, request.action, request.args, reply)}
    /\ UNCHANGED <<supVars, dispVars, taskVars, returned, request, reply, speaker_info, probe, extVars>>

NextCmd == ExecuteCommandCall

SpecCmd == InitCmd /\ [][NextCmd]_vars

\* C13: for every non-200 status s the server answers, execute_command returns
\* (does not raise) a result with exit_code = s, error_msg = "HTTP s", an empty
\* result, and the request's speaker, action and args.
C13_Non200Captured ==
    \A x \in command_result :
        reply.kind = "status" =>
            /\ ~x.raised
            /\ x.exit_code = reply.status
            /\ reply.status = 404 => x.error_msg = "HTTP 404"
            /\ reply.status = 500 => x.error_msg = "HTTP 500"
            /\ x.result = ""
            /\ x.speaker = request.speaker
            /\ x.action = request.action
            /\ x.args = request.args

C13_Witness ==
    /\ reply = Answers(500)
    /\ request.speaker = "AC/DC"
    /\ Len(request.args) = MaxArgs
    /\ \E x \in command_result : x.exit_code = 500 /\ x.error_msg = "HTTP 500"

\* C14: when client.get raises (connection refused, timeout, DNS failure) or the
\* 200 body cannot be parsed, execute_command returns exit_code = -1,
\* error_msg = the exception's text and an empty result; nothing is raised.
C14_ExceptionsCaptured ==
    \A x \in command_result :
        reply.kind \in {"exception", "bad_body"} =>
            /\ ~x.raised
            /\ x.exit_code = -1
            /\ x.error_msg = reply.text
            /\ x.result = ""

C14_Witness ==
    /\ reply.kind = "bad_body"
    /\ \E x \in command_result :
           x.exit_code = -1 /\ x.error_msg = "Expecting value: line 1 column 1 (char 0)"

\* C15: on a 200 answer with a JSON object, every field of the result equals the
\* body's field when the body has it; otherwise speaker, action and args are the
\* request's, exit_code is 0, result and error_msg are "".
C15_FieldsFromBodyOrDefault ==
    \A x \in command_result :
        reply.kind = "json" =>
            /\ x.speaker \in (IF reply.body.speaker # {} THEN reply.body.speaker ELSE {request.speaker})
            /\ x.action \in (IF reply.body.action # {} THEN reply.body.action ELSE {request.action})
            /\ x.args \in (IF reply.body.args # {} THEN reply.body.args ELSE {request.args})
            /\ x.exit_code \in (IF reply.body.exit_code # {} THEN reply.body.exit_code ELSE {0})
            /\ x.result \in (IF reply.body.result # {} THEN reply.body.result ELSE {""})
            /\ x.error_msg \in (IF reply.body.error_msg # {} THEN reply.body.error_msg ELSE {""})

C15_Witness ==
    /\ reply.kind = "json"
    /\ reply.body.speaker = {"Bedroom"}
    /\ reply.body.args = {}
    /\ reply.body.exit_code = {}
    /\ request.speaker = "Den"
    /\ request.args # <<>>
    /\ \E x \in command_result :
           x.speaker = "Bedroom" /\ x.args = request.args /\ x.exit_code = 0

\* C16: when the connection to the command server is refused, execute_command
\* returns exit_code = -1 and the offline classifier is true of the returned
\* error_msg.
C16_RefusedClassifiedOffline ==
    \A x \in command_result :
        (reply.kind = "exception" /\ reply.cause = "connection_refused") =>
            /\ x.exit_code = -1
            /\ is_timeout_or_connection_error(x.error_msg)

\* The path of a URL after the server's base, cut at every "/".
RECURSIVE Split(_)
Split(s) ==
    IF ~Contains(s, "/") THEN <<s>>
    ELSE LET k == CHOOSE j \in 1..Len(s) :
                      Char(s, j) = "/" /\ \A h \in 1..(j - 1) : Char(s, h) # "/"
         IN  <<SubSeq(s, 1, k - 1)>> \o Split(SubSeq(s, k + 1, Len(s)))

PathSegments(u) == Split(SubSeq(u, Len(ServerUrl) + 2, Len(u)))

\* Percent-decoding of one segment: the inverse of PercentCode.
RECURSIVE unquote(_)
unquote(s) ==
    IF s = "" THEN ""
    ELSE IF Char(s, 1) = "%" /\ \E c \in DOMAIN PercentCode : PercentCode[c] = SubSeq(s, 1, 3)
         THEN (CHOOSE c \in DOMAIN PercentCode : PercentCode[c] = SubSeq(s, 1, 3))
                  \o unquote(SubSeq(s, 4, Len(s)))
         ELSE Char(s, 1) \o unquote(SubSeq(s, 2, Len(s)))

\* C18: the URL execute_command builds has exactly 2 + n path segments after
\* the base URL for n arguments, in the order speaker, action, arg1..argn, and
\* percent-decoding each segment gives the corresponding input string.
C18_UrlSegmentsDecode ==
    url # "" =>
        LET segs == PathSegments(url)
        IN  /\ Len(segs) = 2 + Len(request.args)
            /\ unquote(segs[1]) = request.speaker
            /\ unquote(segs[2]) = request.action
            /\ \A k \in 1..Len(request.args) : unquote(segs[2 + k]) = request.args[k]

\* ===================================================================
\* get_speaker_info: five sub-commands, stopping at the first one that is
\* classified offline.  The numeric fields (volume, battery_level) do not
\* take part in the classification and are left out of the Speaker record.
\* ===================================================================
SubCommands == <<"volume", "mute", "playback", "track", "battery">>

\* The command server answered: the command ran and printed x.
CommandOk(x) ==
    JsonObject([AbsentBody EXCEPT !.exit_code = {0}, !.result = {x}])
\* The command server answered: the command failed with message m.
CommandFailed(m) ==
    JsonObject([AbsentBody EXCEPT !.exit_code = {1}, !.error_msg = {m}])

\* What the server reports when the physical speaker does not answer it.
SpeakerDownTexts == {"HTTPConnectionPool(host='192.168.1.20', port=1400): Max retries exceeded"}

ProbeReplies ==
    {CommandOk(x) : x \in {"on", "PLAYING"}}
        \cup {CommandFailed(m) : m \in SpeakerDownTexts \cup {"Speaker not found"}}
        \cup {Answers(500)}
        \cup {Raises("connection_refused", x) : x \in ConnectionRefusedTexts}
        \cup {Raises("timeout", x) : x \in TimeoutTexts}

\* if r.exit_code != 0 and self._is_timeout_or_connection_error(r.error_msg)
ClassifiedOffline(r) ==
    r.exit_code # 0 /\ is_timeout_or_connection_error(r.error_msg)

\* The field a successful sub-command fills in.
Filled(s, k, r) ==
    IF r.exit_code # 0 THEN s
    ELSE CASE SubCommands[k] = "mute" -> [s EXCEPT !.is_muted = {lower(r.result) = "on"}]
           [] SubCommands[k] = "playback" -> [s EXCEPT !.playback_state = {r.result}]
           [] SubCommands[k] = "track" -> [s EXCEPT !.current_track = {r.result}]
           [] OTHER -> s

\* speaker = Speaker(name=speaker_name)
get_speaker_info ==
    /\ probe = 0
    /\ \E name \in Speakers : speaker_info' = Speaker(name)
    /\ probe' = 1
    /\ UNCHANGED <<supVars, dispVars, taskVars, returned, request, reply, url, command_result, extVars>>

\* One `await self.execute_command(speaker_name, <sub-command>)` and the tests
\* that follow it; the battery sub-command has no offline test.
SpeakerInfoProbe ==
    /\ probe \in 1..Len(SubCommands)
    /\ \E r \in ProbeReplies :
         LET a == SubCommands[probe]
             rsp == CommandResult(speaker_info.name, a, <<>>, r)
         IN  /\ request' = [speaker |-> speaker_info.name, action |-> a, args |-> <<>>]
             /\ reply' = r
             /\ url' = TargetUrl(speaker_info.name, a, <<>>)
             /\ command_result' = {rsp}
             /\ IF a # "battery" /\ ClassifiedOffline(rsp)
                THEN /\ speaker_info' = [speaker_info EXCEPT
                                            !.is_offline = TRUE,
                                            !.error_message = {"Speaker is offline or unreachable"}]
                     /\ probe' = 0
                ELSE /\ speaker_info' = Filled(speaker_info, probe, rsp)
                     /\ probe' = IF probe = Len(SubCommands) THEN 0 ELSE probe + 1
    /\ UNCHANGED <<supVars, dispVars, taskVars, returned, extVars>>

NextInfo ==
    \/ get_speaker_info
    \/ SpeakerInfoProbe

SpecInfo == Init /\ [][NextInfo]_vars

C21_OrderAndShortCircuit ==
    [][(probe \in 1..5 /\ probe' # probe) =>
          /\ request'.action = <<"volume", "mute", "playback", "track", "battery">>[probe]
          /\ request'.speaker = speaker_info.name
          /\ \A x \in command_result' :
                 IF ClassifiedOffline(x)
                 THEN speaker_info'.is_offline /\ probe' = 0
                 ELSE ~speaker_info'.is_offline /\ probe' = (IF probe = 5 THEN 0 ELSE probe + 1)]_vars

\* C22: a speaker that get_speaker_info returns as offline has none of its
\* fields set, whichever sub-command was the one classified offline.
C22_OfflineHasNoFields ==
    speaker_info.is_offline =>
        /\ speaker_info.is_muted = {}
        /\ speaker_info.playback_state = {}
        /\ speaker_info.current_track = {}

\* ===================================================================
\* GET /speakers/{speaker_name}/queue (routers/sonos.py get_queue).
\* Each execute_command is taken with its result; the parsed track list is
\* left out of the returned dict, raw and exitCode are kept.
\* ===================================================================
\* str.strip(), for blanks
RECURSIVE strip(_)
strip(s) ==
    IF s = "" THEN ""
    ELSE IF Contains(" \n", Char(s, 1)) THEN strip(SubSeq(s, 2, Len(s)))
    ELSE IF Contains(" \n", Char(s, Len(s))) THEN strip(SubSeq(s, 1, Len(s) - 1))
    ELSE s

QueueReplies ==
    {CommandOk(x) : x \in {"1: Song A", " 1: Song A ", "", "  "}}
        \cup {CommandFailed(m) : m \in SpeakerDownTexts \cup {"Speaker not found", ""}}
        \cup {JsonObject(AbsentBody)}
        \cup {Answers(s) : s \in ErrorStatuses}
        \cup {Raises("connection_refused", x) : x \in ConnectionRefusedTexts}
        \cup {Raises("timeout", x) : x \in TimeoutTexts}

\* Variant of RetryNeeded: any blank result is retried, failed commands too.
RetryNeeded_AnyBlank(r) ==
    strip(r.result) = ""

\* if result.exit_code == 0 and not result.result.strip()
RetryNeeded(r) ==
    r.exit_code = 0 /\ strip(r.result) = ""

\* return {"tracks": ..., "raw": result.result, "exitCode": result.exit_code}
QueueDict(r) ==
    [raw |-> r.result, exitCode |-> r.exit_code]

\* The call and its first list_queue command; without the retry it returns.
get_queue ==
    /\ queue_results = <<>> \/ queue_response # {}
    /\ \E name \in Speakers, r \in QueueReplies :
         LET first == CommandResult(name, "list_queue", <<>>, r)
         IN  /\ request' = [speaker |-> name, action |-> "list_queue", args |-> <<>>]
             /\ reply' = r
             /\ queue_results' = <<first>>
             /\ queue_response' = IF RetryNeeded(first) THEN {} ELSE {QueueDict(first)}
    /\ UNCHANGED <<supVars, dispVars, taskVars, returned, url, command_result,
                   speaker_info, probe, pathVars, upgradeVars, routerVars>>

\* The second list_queue command, whose result is returned whatever it is.
get_queue_retry ==
    /\ Len(queue_results) = 1
    /\ queue_response = {}
    /\ \E r \in QueueReplies :
         LET second == CommandResult(request.speaker, "list_queue", <<>>, r)
         IN  /\ reply' = r
             /\ queue_results' = Append(queue_results, second)
             /\ queue_response' = {QueueDict(second)}
    /\ UNCHANGED <<supVars, dispVars, taskVars, returned, request, url, command_result,
                   speaker_info, probe, pathVars, upgradeVars, routerVars>>

NextQueue ==
    \/ get_queue
    \/ get_queue_retry

SpecQueue == Init /\ [][NextQueue]_vars

\* C23: get_queue dispatches a second list_queue command if and only if the first
\* returned exit_code 0 with a blank result, never a third, and reports the
\* result of the last command it dispatched.
C23_RetryOnceOnBlank ==
    LET Blank(s) == \A k \in 1..Len(s) : Char(s, k) = " "
        n == Len(queue_results)
    IN  /\ n <= 2
        /\ n = 2 => (queue_results[1].exit_code = 0 /\ Blank(queue_results[1].result))
        /\ (n = 1 /\ queue_response # {}) =>
               ~(queue_results[1].exit_code = 0 /\ Blank(queue_results[1].result))
        /\ (n = 1 /\ queue_response = {}) =>
               (queue_results[1].exit_code = 0 /\ Blank(queue_results[1].result))
        /\ \A d \in queue_response :
               d.raw = queue_results[n].result /\ d.exitCode = queue_results[n].exit_code

C23_Witness ==
    /\ Len(queue_results) = 2
    /\ queue_results[1].result = "  "
    /\ queue_results[2].exit_code = 0
    /\ queue_results[2].result = ""
    /\ queue_response = {[raw |-> "", exitCode |-> 0]}

\* C24: the dispatcher does not retry: an execute_command call returns only from
\* its command GET and has sent exactly one command GET by then, whatever the
\* outcome (200, non-200, transport error) and whether or not the preceding
\* ensure_server_running got the server started.
C24_OneCommandGet ==
    [][\A t \in Tasks :
          /\ gets'[t] <= 1
          /\ (op[t] = "execute_command" /\ pc[t] # "idle" /\ pc'[t] = "idle")
                 => /\ pc[t] = "request_http"
                    /\ gets[t] = 1
                    /\ returned'.fn = "execute_command"
                    /\ returned'.via \in {"200", "non200", "exception"}]_vars

\* A command sent although the server could not be spawned failed in transport.
C24_Witness ==
    /\ returned = Ret("execute_command", "exception", "failed", 0, 0)
    /\ spawnCount = 0
    /\ process = None
    /\ \A t \in Tasks : pc[t] = "idle"

\* ===================================================================
\* ensure_server_running called directly and from execute_command
\* ===================================================================
NextEnsure ==
    \/ \E t \in Tasks : ensure_server_running(t)
    \/ \E t \in Tasks : execute_command(t)
    \/ \E t \in Tasks : ResumeRequestWaiter(t)
    \/ \E t \in Tasks : RequestDone(t)
    \/ \E t \in Tasks : ResumeStartWaiter(t)
    \/ \E t \in Tasks : StartWake(t)
    \/ \E t \in Tasks : StartProbeDone(t)
    \/ ProcessExit

SpecEnsure == Init /\ [][NextEnsure]_vars

\* C25: ensure_server_running calls start_server exactly when is_running() is
\* false at the call and ends with it whatever start_server returned (its own
\* return is None, without a start, when the server runs); execute_command has
\* finished it before it acquires the request lock.
C25_EnsureThenDispatch ==
    [][/\ \A t \in Tasks :
            /\ (pc[t] = "idle" /\ op'[t] = "execute_command" /\ is_running)
                   => /\ pc'[t] \in {"request_http", "request_wait_lock"}
                      /\ UNCHANGED supVars
                      /\ returned' = Ret("ensure_server_running", "running", "none", 0, 0)
            /\ (pc[t] = "idle" /\ op'[t] \in {"execute_command", "ensure_server_running"}
                  /\ ~is_running)
                   => \/ pc'[t] \in {"start_wait_lock", "start_sleep"}
                      \/ returned'.fn = "start_server" /\ op'[t] = "execute_command"
            /\ (pc[t] = "idle" /\ op'[t] = "ensure_server_running") => ~is_running
            /\ (pc[t] \notin {"request_http", "request_wait_lock"}
                  /\ pc'[t] \in {"request_http", "request_wait_lock"})
                   => /\ start_lock' # t
                      /\ \A k \in 1..Len(start_waiters') : start_waiters'[k] # t
                      /\ returned'.fn \in {"start_server", "ensure_server_running"}
            /\ (op[t] = "ensure_server_running" /\ pc[t] # "idle" /\ pc'[t] = "idle")
                   => /\ returned'.fn = "start_server"
                      /\ returned'.value \in {"true", "false"}
                      /\ op'[t] = "none"
       /\ (returned' # returned /\ returned'.fn = "ensure_server_running")
              => /\ returned' = Ret("ensure_server_running", "running", "none", 0, 0)
                 /\ is_running
                 /\ UNCHANGED supVars]_vars

\* start_server failed to spawn and answered False to ensure_server_running,
\* which ended with it: no command followed.
C25_Witness ==
    /\ returned = Ret("start_server", "exception", "false", 0, 0)
    /\ process = None
    /\ \A t \in Tasks : pc[t] = "idle" /\ gets[t] = 0

\* ===================================================================
\* SocoCliService._get_executable_path and _resolve_from_path, as a function of
\* the settings and of the file system (path_env).
\* ===================================================================
\* bound: how many of the known paths exist on the host at once
MaxPresent == 2

Command == "sonos-http-api-server"

RECURSIVE Join(_)
Join(parts) ==
    IF parts = <<>> THEN ""
    ELSE IF Len(parts) = 1 THEN parts[1]
    ELSE parts[1] \o "/" \o Join(Tail(parts))

\* str(Path(s)) of pathlib on POSIX: empty and "." components are dropped, a
\* leading "/" is kept, and the empty path is ".".
PathStr(s) ==
    LET parts == Split(s)
        kept == SelectSeq(parts, LAMBDA c : c # "" /\ c # ".")
        rel == Join(kept)
    IN  IF s # "" /\ Char(s, 1) = "/" THEN "/" \o rel
        ELSE IF rel = "" THEN "." ELSE rel

\* possible_paths, in the order the code builds it: the two entries under
\* Path.home(), the two under /home/<user> for each of common_users, and the
\* system-wide locations.
possible_paths(home) ==
    LET OfUser(user) ==
            <<"/home/" \o user \o "/.local/bin/" \o Command,
              "/home/" \o user \o "/.local/share/pipx/venvs/soco-cli/bin/" \o Command>>
    IN  <<PathStr(home \o "/.local/bin/" \o Command),
          PathStr(home \o "/.local/share/pipx/venvs/soco-cli/bin/" \o Command)>>
            \o OfUser("danmc") \o OfUser("pi") \o OfUser("sonos")
            \o <<"/usr/local/bin/" \o Command, "/opt/homebrew/bin/" \o Command>>

\* The hosts a call is made on.
\*   configured: settings.soco_cli_executable_path: unset, absolute, relative
\*               to the working directory, absolute with a doubled separator;
\*   home:       what Path.home() finds, "" where the user has no passwd entry
\*               and HOME is unset, for which Path.home() raises RuntimeError;
\*   present:    the files that exist, by normalised name;
\*   denied:     directories the service's user may not search: stat() of
\*               anything below fails with EACCES;
\*   which:      subprocess.run(["which", command], timeout=5): it raises
\*               (TimeoutExpired, or FileNotFoundError without a `which`), or
\*               completes with a return code and its standard output.
PathEnvs ==
    LET ConfiguredPaths ==
            {"", "/opt/soco/" \o Command, "./" \o Command, "/opt//soco/" \o Command}
        Homes == {"/root", "/home/pi", ""}
        DeniedDirs == {{}, {"/home/danmc"}, {"/home/pi"}}
        WhichPath == "/usr/bin/" \o Command
        WhichOutcomes ==
            {[raised |-> TRUE, returncode |-> 0, stdout |-> ""],
             [raised |-> FALSE, returncode |-> 1, stdout |-> ""],
             [raised |-> FALSE, returncode |-> 0, stdout |-> ""],
             [raised |-> FALSE, returncode |-> 0, stdout |-> WhichPath \o "\n"]}
        KnownPaths ==
            {PathStr(c) : c \in ConfiguredPaths \ {""}}
                \cup UNION {{possible_paths(h)[k] : k \in 1..Len(possible_paths(h))} :
                                h \in Homes \ {""}}
                \cup {WhichPath}
    IN  {[configured |-> c, home |-> h, present |-> p, denied |-> d, which |-> w] :
            c \in ConfiguredPaths, h \in Homes,
            p \in {q \in SUBSET KnownPaths : Cardinality(q) <= MaxPresent},
            d \in DeniedDirs, w \in WhichOutcomes}

\* Path(p).exists(): "yes", "no", or "denied" where stat() fails with EACCES
\* and exists() re-raises it as PermissionError.
Exists(p, e) ==
    IF \E d \in e.denied : Len(p) > Len(d) /\ SubSeq(p, 1, Len(d) + 1) = d \o "/"
    THEN "denied"
    ELSE IF PathStr(p) \in e.present THEN "yes" ELSE "no"

\* What a call did: the exception that left it ("" if none), the value it
\* returned, how many entries of possible_paths it tested, and whether it ran
\* `which`.
PathResult(exc, value, n, w) ==
    [raised |-> exc, value |-> value, checked |-> n, which_called |-> w]

\* _resolve_from_path: the stripped output of `which` if it exists, else None
\* (written ""); every exception inside is caught.
resolve_from_path(e) ==
    LET path == strip(e.which.stdout)
    IN  IF ~e.which.raised /\ e.which.returncode = 0 /\ path # ""
               /\ Exists(path, e) = "yes"
        THEN path ELSE ""

\* for path in possible_paths: if Path(path).exists(): return path
\* from entry k on; the loop has no try around exists().
RECURSIVE SearchFrom(_, _, _)
SearchFrom(paths, k, e) ==
    IF k > Len(paths)
    THEN LET found == resolve_from_path(e)
         IN  PathResult("", IF found # "" THEN found ELSE Command, Len(paths), TRUE)
    ELSE CASE Exists(paths[k], e) = "yes" -> PathResult("", paths[k], k, FALSE)
           [] Exists(paths[k], e) = "denied" -> PathResult("PermissionError", "", k, FALSE)
           [] OTHER -> SearchFrom(paths, k + 1, e)

\* _get_executable_path
ExecutablePath(e) ==
    LET path == PathStr(e.configured)
    IN  IF e.configured # "" /\ Exists(path, e) = "denied"
        THEN PathResult("PermissionError", "", 0, FALSE)
        ELSE IF e.configured # "" /\ Exists(path, e) = "yes"
        THEN PathResult("", path, 0, FALSE)
        ELSE IF e.home = ""
        THEN PathResult("RuntimeError", "", 0, FALSE)
        ELSE SearchFrom(possible_paths(e.home), 1, e)

InitPath ==
    /\ ServicesInit
    /\ CommandsInit
    /\ queue_results = <<>>
    /\ queue_response = {}
    /\ path_env \in PathEnvs
    /\ resolved = {}
    /\ UpgradeInit([upgrade_enabled |-> FALSE, upgrade_ring |-> 3, sndctl_server_url |-> FALSE])
    /\ RouterInit("off", DefaultMacrosFile)

get_executable_path ==
    /\ resolved = {}
    /\ resolved' = {ExecutablePath(path_env)}
    /\ UNCHANGED <<supVars, dispVars, taskVars, returned, cmdVars, queueVars, path_env,
                   upgradeVars, routerVars>>

NextPath == get_executable_path

SpecPath == InitPath /\ [][NextPath]_vars

\* A configured path that exists.
ConfiguredExists ==
    path_env.configured # "" /\ Exists(path_env.configured, path_env) = "yes"

\* C26: given a configured path that exists, _get_executable_path returns that
\* path verbatim, tests no entry of possible_paths and does not run `which`.
C26_ConfiguredVerbatim ==
    \A r \in resolved :
        ConfiguredExists =>
            /\ r.raised = ""
            /\ r.value = path_env.configured
            /\ r.checked = 0
            /\ ~r.which_called

\* The value C27 describes: the first existing entry of possible_paths, else
\* the result of the PATH lookup if it succeeded and exists, else the bare name.
ExpectedPath(e) ==
    LET paths == possible_paths(e.home)
        hits == {k \in 1..Len(paths) : PathStr(paths[k]) \in e.present}
        looked == strip(e.which.stdout)
    IN  IF hits # {} THEN paths[CHOOSE k \in hits : \A h \in hits : k <= h]
        ELSE IF ~e.which.raised /\ e.which.returncode = 0 /\ looked \in e.present
        THEN looked
        ELSE Command

\* C27: without a configured existing path, _get_executable_path raises nothing
\* and returns the first existing candidate in the fixed order, else the PATH
\* lookup result, else the bare command name.
C27_FirstExistingNeverThrows ==
    \A r \in resolved :
        ~ConfiguredExists => (r.raised = "" /\ r.value = ExpectedPath(path_env))

\* ===================================================================
\* UpgradeService.perform_upgrade, called by POST /upgrades/apply from several
\* requests of one event loop. A step is the code between two suspensions:
\* the acquire of a held _lock, the HTTP exchanges, the dpkg thread and the
\* sleep of _request_restart.
\* ===================================================================
\* bound: perform_upgrade calls in one behaviour
MaxUpgradeCalls == 2

\* UpgradeRing: CANARY = 0 .. CONSERVATIVE = 3
Rings == 0..3

UpgradeSettings ==
    [upgrade_enabled : BOOLEAN, upgrade_ring : Rings, sndctl_server_url : BOOLEAN]

\* What the update server did for POST /api/v1/upgrades/check: the exchange or
\* raise_for_status failed, or the JSON carried updateAvailable and an optional
\* latestVersion, of which min_ring matters here.
CheckReplies ==
    {[ok |-> FALSE, update_available |-> FALSE, latest_version |-> {}]}
        \cup [ok : {TRUE}, update_available : BOOLEAN,
              latest_version : {{}} \cup {{[min_ring |-> m]} : m \in Rings}]

\* The ring test of perform_upgrade: `if settings.upgrade_ring <
\* version_info.min_ring` ends the call, anything else goes on to download.
RingEligible(ring, min_ring) == ~(ring < min_ring)

\* What the download did: raise_for_status or the connection failed before the
\* file was opened, the stream broke after open(download_path, "wb"), or the
\* file was written whole with a checksum that differs from or equals
\* version_info.checksum.
DownloadOutcomes == {"http_error", "broken", "mismatch", "match"}

\* The except blocks: status FAILED and error_message = str(e).
Failed(st, message) == [st EXCEPT !.status = "failed", !.error_message = message]

\* apply_upgrade's answer for what perform_upgrade returned.
apply_upgrade(value) == IF value = "True" THEN "upgrading" ELSE "current"

\* perform_upgrade returns to apply_upgrade, which answers; info is what the
\* call last knew of its version and download.
UpgradeReturn(t, value, info) ==
    /\ upgraded' = [task |-> t, value |-> value, answer |-> apply_upgrade(value)]
    /\ upgrade_pc' = [upgrade_pc EXCEPT ![t] = "idle"]
    /\ version_info' = [version_info EXCEPT ![t] = info]

\* The first statements inside `async with self._lock` of check_for_upgrade,
\* download_package and install_package.
Entered(step, st) ==
    CASE step = "check" -> [st EXCEPT !.status = "checking"]
      [] step = "download" -> [st EXCEPT !.status = "downloading", !.pending_version = "1.2.0"]
      [] step = "install" -> [st EXCEPT !.status = "installing"]

\* `async with self._lock` of one of the three steps, reached with the state
\* st while the lock is `lock`: asyncio.Lock.acquire takes a free lock nobody
\* waits for and runs on to the step's await, else the task queues. The dpkg
\* thread of install is given the file as it is then.
Begin(t, step, st, lock, file) ==
    IF lock = Unlocked /\ upgrade_waiters = <<>>
    THEN /\ upgrade_lock' = t
         /\ upgrade_pc' = [upgrade_pc EXCEPT ![t] = step]
         /\ upgrade_state' = Entered(step, st)
         /\ dpkg_runs' = IF step = "install"
                         THEN dpkg_runs \cup {[task |-> t, file |-> file]}
                         ELSE dpkg_runs
         /\ UNCHANGED upgrade_waiters
    ELSE /\ upgrade_lock' = lock
         /\ upgrade_waiters' = Append(upgrade_waiters, t)
         /\ upgrade_pc' = [upgrade_pc EXCEPT ![t] = "wait_" \o step]
         /\ upgrade_state' = st
         /\ UNCHANGED dpkg_runs

\* The service process is alive: sys.exit(0) has not ended it.
Serving == upgraded.value # "SystemExit"

UpgradeOthers ==
    <<supVars, dispVars, taskVars, returned, cmdVars, queueVars, pathVars, routerVars>>

\* perform_upgrade up to its first suspension.
perform_upgrade(t) ==
    /\ Serving
    /\ upgrade_pc[t] = "idle"
    /\ upgrade_calls < MaxUpgradeCalls
    /\ upgrade_calls' = upgrade_calls + 1
    /\ IF ~settings.upgrade_enabled
       THEN /\ UpgradeReturn(t, "False", NoVersion)
            /\ UNCHANGED <<upgrade_state, upgrade_lock, upgrade_waiters, dpkg_runs>>
       ELSE IF ~settings.sndctl_server_url
       THEN /\ UpgradeReturn(t, "False", NoVersion)
            /\ upgrade_state' = Failed(upgrade_state, "Server URL not configured")
            /\ UNCHANGED <<upgrade_lock, upgrade_waiters, dpkg_runs>>
       ELSE /\ Begin(t, "check", upgrade_state, upgrade_lock, download_path)
            /\ version_info' = [version_info EXCEPT ![t] = NoVersion]
            /\ UNCHANGED upgraded
    /\ UNCHANGED <<settings, download_path, UpgradeOthers>>

\* A task queued for _lock is woken by the release and enters its step.
ResumeUpgradeWaiter(t) ==
    /\ Serving
    /\ upgrade_lock = Unlocked
    /\ upgrade_waiters # <<>>
    /\ Head(upgrade_waiters) = t
    /\ \E step \in {"check", "download", "install"} :
         /\ upgrade_pc[t] = "wait_" \o step
         /\ upgrade_lock' = t
         /\ upgrade_waiters' = Tail(upgrade_waiters)
         /\ upgrade_pc' = [upgrade_pc EXCEPT ![t] = step]
         /\ upgrade_state' = Entered(step, upgrade_state)
         /\ dpkg_runs' = IF step = "install"
                         THEN dpkg_runs \cup {[task |-> t, file |-> download_path]}
                         ELSE dpkg_runs
    /\ UNCHANGED <<settings, version_info, download_path, upgraded, upgrade_calls, UpgradeOthers>>

\* The check's POST completes: check_for_upgrade ends, and perform_upgrade
\* tests the answer and the ring and goes on to download_package.
CheckDone(t) ==
    /\ Serving
    /\ upgrade_pc[t] = "check"
    /\ \E r \in CheckReplies :
         LET st == [upgrade_state EXCEPT !.status = "idle"]
         IN  IF ~r.ok
             THEN /\ UpgradeReturn(t, "False", NoVersion)
                  /\ upgrade_state' = Failed(upgrade_state, "Upgrade check failed")
                  /\ upgrade_lock' = Unlocked
                  /\ UNCHANGED <<upgrade_waiters, dpkg_runs>>
             ELSE IF ~r.update_available \/ r.latest_version = {}
                     \/ \E v \in r.latest_version :
                            ~RingEligible(settings.upgrade_ring, v.min_ring)
             THEN /\ UpgradeReturn(t, "False", NoVersion)
                  /\ upgrade_state' = st
                  /\ upgrade_lock' = Unlocked
                  /\ UNCHANGED <<upgrade_waiters, dpkg_runs>>
             ELSE /\ \E v \in r.latest_version :
                        version_info' = [version_info EXCEPT
                                            ![t] = [min_ring |-> v.min_ring, download |-> "none"]]
                  /\ Begin(t, "download", st, Unlocked, download_path)
                  /\ UNCHANGED upgraded
    /\ UNCHANGED <<settings, download_path, upgrade_calls, UpgradeOthers>>

\* download_package where every complete download passes the checksum test.
DownloadDone_NoChecksum(t) ==
    /\ Serving
    /\ upgrade_pc[t] = "download"
    /\ \E outcome \in DownloadOutcomes :
         LET file == CASE outcome = "http_error" -> download_path
                       [] outcome = "broken" -> "partial"
                       [] outcome = "mismatch" -> "partial"
                       [] outcome = "match" -> "verified"
         IN  /\ download_path' = file
             /\ IF outcome \in {"match", "mismatch"}
                THEN /\ version_info' = [version_info EXCEPT ![t].download = outcome]
                     /\ Begin(t, "install", upgrade_state, Unlocked, file)
                     /\ UNCHANGED upgraded
                ELSE /\ UpgradeReturn(t, "False", [version_info[t] EXCEPT !.download = outcome])
                     /\ upgrade_state' = Failed(upgrade_state, "Download failed")
                     /\ upgrade_lock' = Unlocked
                     /\ UNCHANGED <<upgrade_waiters, dpkg_runs>>
    /\ UNCHANGED <<settings, upgrade_calls, UpgradeOthers>>

\* The download ends: download_package verifies the checksum and returns or
\* raises, and perform_upgrade goes on to install_package or returns False.
DownloadDone(t) ==
    /\ Serving
    /\ upgrade_pc[t] = "download"
    /\ \E outcome \in DownloadOutcomes :
         LET file == CASE outcome = "http_error" -> download_path
                       [] outcome = "broken" -> "partial"
                       [] outcome = "mismatch" -> "absent"
                       [] outcome = "match" -> "verified"
         IN  /\ download_path' = file
             /\ IF outcome = "match"
                THEN /\ version_info' = [version_info EXCEPT ![t].download = outcome]
                     /\ Begin(t, "install", upgrade_state, Unlocked, file)
                     /\ UNCHANGED upgraded
                ELSE /\ UpgradeReturn(t, "False", [version_info[t] EXCEPT !.download = outcome])
                     /\ upgrade_state' = Failed(upgrade_state, "Download failed")
                     /\ upgrade_lock' = Unlocked
                     /\ UNCHANGED <<upgrade_waiters, dpkg_runs>>
    /\ UNCHANGED <<settings, upgrade_calls, UpgradeOthers>>

\* dpkg ends: with return code 0 (only for a whole package) install_package
\* deletes the file and perform_upgrade sets RESTARTING and sleeps in
\* _request_restart; otherwise the call fails.
InstallDone(t) ==
    /\ Serving
    /\ upgrade_pc[t] = "install"
    /\ \E returncode \in (IF download_path = "verified" THEN {0, 1} ELSE {1}) :
         IF returncode = 0
         THEN /\ download_path' = "absent"
              /\ upgrade_state' = [upgrade_state EXCEPT !.status = "restarting"]
              /\ upgrade_pc' = [upgrade_pc EXCEPT ![t] = "restart"]
              /\ UNCHANGED <<upgraded, version_info>>
         ELSE /\ UpgradeReturn(t, "False", NoVersion)
              /\ upgrade_state' = Failed(upgrade_state, "Installation failed")
              /\ UNCHANGED download_path
    /\ upgrade_lock' = Unlocked
    /\ UNCHANGED <<settings, upgrade_waiters, dpkg_runs, upgrade_calls, UpgradeOthers>>

\* _request_restart after its sleep: sys.exit(0) raises SystemExit, which
\* `except Exception` in perform_upgrade and `except RuntimeError` in
\* apply_upgrade let pass; it ends the task, the event loop and the process.
RequestRestart(t) ==
    /\ Serving
    /\ upgrade_pc[t] = "restart"
    /\ upgraded' = [task |-> t, value |-> "SystemExit", answer |-> "none"]
    /\ upgrade_pc' = [upgrade_pc EXCEPT ![t] = "idle"]
    /\ UNCHANGED <<settings, upgrade_state, upgrade_lock, upgrade_waiters, version_info,
                   download_path, dpkg_runs, upgrade_calls, UpgradeOthers>>

InitUpgrade ==
    /\ ServicesInit
    /\ CommandsInit
    /\ queue_results = <<>>
    /\ queue_response = {}
    /\ path_env = BareHost
    /\ resolved = {}
    /\ \E s \in UpgradeSettings : UpgradeInit(s)
    /\ RouterInit("off", DefaultMacrosFile)

NextUpgrade ==
    \E t \in Tasks :
        \/ perform_upgrade(t)
        \/ ResumeUpgradeWaiter(t)
        \/ CheckDone(t)
        \/ DownloadDone(t)
        \/ InstallDone(t)
        \/ RequestRestart(t)

SpecUpgrade == InitUpgrade /\ [][NextUpgrade]_vars

UpgradeTypeOK ==
    /\ upgrade_state.status \in {"idle", "checking", "downloading", "installing",
                                 "restarting", "failed"}
    /\ upgrade_lock \in Tasks \cup {Unlocked}
    /\ \A t \in Tasks :
         upgrade_pc[t] \in {"idle", "check", "download", "install", "restart",
                            "wait_check", "wait_download", "wait_install"}
    /\ download_path \in {"absent", "partial", "verified"}

\* Where a perform_upgrade call is once its ring has passed the ring test.
PastRingTest == {"download", "wait_download", "install", "wait_install", "restart"}

\* C28: ring eligibility is monotone downwards: when perform_upgrade treats the
\* device's ring as eligible for a version, every lower ring is eligible for
\* that version too.
C28_RingMonotone ==
    \A t \in Tasks :
        upgrade_pc[t] \in PastRingTest =>
            \A ring \in Rings :
                ring < settings.upgrade_ring => RingEligible(ring, version_info[t].min_ring)

\* C29: a perform_upgrade call whose check, download, checksum test and install
\* succeeded returns True and the endpoint answers "upgrading"; every other
\* call returns False.
C29_UpgradeReturnsTrue ==
    [][\A t \in Tasks :
         /\ (upgrade_pc[t] = "restart" /\ upgrade_pc'[t] # "restart") =>
                upgraded' = [task |-> t, value |-> "True", answer |-> "upgrading"]
         /\ (upgrade_pc[t] # "restart" /\ upgraded' # upgraded /\ upgraded'.task = t) =>
                upgraded'.value = "False"]_vars

\* C30: a perform_upgrade call reaches install_package, and dpkg is run for it,
\* only when its own download completed with a matching checksum, upgrades are
\* enabled and the ring is not below the version's min_ring; the step that
\* finds a checksum mismatch leaves no file, status FAILED, runs no dpkg and
\* returns False.
C30_InstallOnlyVerified ==
    /\ [](\A t \in Tasks :
            upgrade_pc[t] \in {"wait_install", "install", "restart"} =>
                /\ version_info[t].download = "match"
                /\ settings.upgrade_enabled
                /\ settings.upgrade_ring >= version_info[t].min_ring)
    /\ [][/\ \A run \in dpkg_runs' \ dpkg_runs :
                /\ version_info'[run.task].download = "match"
                /\ upgrade_pc[run.task] \in {"download", "wait_install"}
          /\ \A t \in Tasks :
                (/\ upgrade_pc[t] = "download"
                 /\ upgrade_pc'[t] # "download"
                 /\ version_info'[t].download = "mismatch") =>
                    /\ download_path' = "absent"
                    /\ upgrade_state'.status = "failed"
                    /\ dpkg_runs' = dpkg_runs
                    /\ upgrade_pc'[t] = "idle"
                    /\ upgraded' = [task |-> t, value |-> "False", answer |-> "current"]]_vars

\* dpkg has run for one call and another call has ended on a checksum mismatch.
C30_Witness ==
    /\ dpkg_runs # {}
    /\ upgraded.value = "False"
    /\ version_info[upgraded.task].download = "mismatch"
    /\ upgrade_state.status = "failed"
    /\ download_path = "absent"
    /\ \A t \in Tasks : upgrade_pc[t] = "idle"

\* ===================================================================
\* Supervisor: what holds at the return of start_server and in every state
\* ===================================================================
\* C31: a start_server call that returns True from the lock or from the
\* readiness loop leaves a running process behind: is_running() holds in the
\* state it returns in.
C31_TrueMeansRunning ==
    [][\A t \in Tasks :
          (/\ pc[t] \in {"start_wait_lock", "start_sleep", "start_probe"}
           /\ pc'[t] \notin {"start_wait_lock", "start_sleep", "start_probe"}
           /\ returned'.fn = "start_server"
           /\ returned'.value = "true")
              => is_running']_vars

\* C32: at most one spawned subprocess is alive, and a live one is the process
\* the handle refers to.
C32_OneLiveProcess ==
    /\ Cardinality(alive) <= 1
    /\ \A p \in alive : process = p

\* C33: _is_starting is true only while a task holds the start lock inside the
\* readiness loop; with the lock free the flag is false, so every exit path
\* has reset it by the time it releases the lock.
C33_FlagOnlyUnderLock ==
    /\ start_lock = Unlocked => ~is_starting
    /\ is_starting =>
           \E t \in Tasks : start_lock = t /\ pc[t] \in {"start_sleep", "start_probe"}

\* A start that spawned has left the loop on a 200 and released the lock with
\* the flag reset.
C33_Witness ==
    /\ returned.fn = "start_server"
    /\ returned.via = "responsive"
    /\ spawnCount > 0
    /\ start_lock = Unlocked
    /\ ~is_starting

\* ---------------------------------------------------------------------------
\* toggle_mute (routers/sonos.py): a read of the mute state and a write of
\* the inverted state, each one execute_command call of its own.  The
\* soco-cli server is up, so ensure_server_running returns without
\* suspending and each call's only suspension points are the wait for
\* _request_lock and the HTTP GET made under it.

\* Bound on the toggle_mute calls of one run.
MaxToggles == 3

\* Outcomes of one GET: a 200 answer with exit code 0, or anything else
\* (execute_command then returns a response whose result is "").
GetOutcomes == {"ok", "failed"}

\* new_state = "off" if current_state.result.lower() == "on" else "on"
new_state(result) == IF lower(result) = "on" THEN "off" ELSE "on"

ToggleOthers ==
    <<supVars, taskVars, returned, cmdVars, queueVars, pathVars, upgradeVars, macroVars>>

\* The toggle_mute calls begun so far.
TogglesStarted ==
    Cardinality({t \in Tasks : toggle_pc[t] # "idle"})
        + Cardinality({k \in 1..Len(toggle_log) : toggle_log[k].kind = "write"})

\* `async with self._request_lock` as task t reaches it: asyncio's lock is
\* taken at once only when it is free and nobody waits for it.
EnterRequest(t, lock, step) ==
    IF lock = Unlocked /\ request_waiters = <<>>
    THEN /\ request_lock' = t
         /\ UNCHANGED request_waiters
         /\ toggle_pc' = [toggle_pc EXCEPT ![t] = step]
    ELSE /\ request_lock' = lock
         /\ request_waiters' = Append(request_waiters, t)
         /\ toggle_pc' = [toggle_pc EXCEPT ![t] = step \o "_wait"]

\* toggle_mute up to the first suspension of its first execute_command.
toggle_mute(t) ==
    /\ toggle_pc[t] = "idle"
    /\ TogglesStarted < MaxToggles
    /\ EnterRequest(t, request_lock, "read")
    /\ UNCHANGED <<mute_state, mute_before, current_state, toggle_log, ToggleOthers>>

\* The first waiter is given the released lock.
ResumeToggleWaiter(t) ==
    /\ toggle_pc[t] \in {"read_wait", "write_wait"}
    /\ request_lock = Unlocked
    /\ request_waiters # <<>>
    /\ Head(request_waiters) = t
    /\ request_lock' = t
    /\ request_waiters' = Tail(request_waiters)
    /\ toggle_pc' = [toggle_pc EXCEPT ![t] = IF toggle_pc[t] = "read_wait" THEN "read" ELSE "write"]
    /\ UNCHANGED <<mute_state, mute_before, current_state, toggle_log, ToggleOthers>>

\* The GET of "<speaker>/mute" answers: the lock is released, new_state is
\* computed and the second execute_command runs up to its first suspension.
MuteReadDone(t) ==
    /\ toggle_pc[t] = "read"
    /\ request_lock = t
    /\ \E outcome \in GetOutcomes :
          LET result == IF outcome = "ok" THEN mute_state ELSE "" IN
          /\ current_state' = [current_state EXCEPT ![t] = result]
          /\ toggle_log' = Append(toggle_log,
                 [task |-> t, kind |-> "read", value |-> result, ok |-> outcome = "ok"])
    /\ EnterRequest(t, Unlocked, "write")
    /\ UNCHANGED <<mute_state, mute_before, ToggleOthers>>

\* The GET of "<speaker>/mute/<new_state>" answers and toggle_mute returns.
MuteWriteDone(t) ==
    /\ toggle_pc[t] = "write"
    /\ request_lock = t
    /\ \E outcome \in GetOutcomes :
          /\ mute_state' = IF outcome = "ok" THEN new_state(current_state[t]) ELSE mute_state
          /\ toggle_log' = Append(toggle_log,
                 [task |-> t, kind |-> "write", value |-> new_state(current_state[t]),
                  ok |-> outcome = "ok"])
    /\ request_lock' = Unlocked
    /\ toggle_pc' = [toggle_pc EXCEPT ![t] = "idle"]
    /\ current_state' = [current_state EXCEPT ![t] = ""]
    /\ UNCHANGED <<request_waiters, mute_before, ToggleOthers>>

InitToggle ==
    /\ process = 1
    /\ started_at = 1
    /\ alive = {1}
    /\ spawnCount = 1
    /\ start_lock = Unlocked
    /\ start_waiters = <<>>
    /\ is_starting = FALSE
    /\ request_lock = Unlocked
    /\ request_waiters = <<>>
    /\ pc = [t \in Tasks |-> "idle"]
    /\ op = [t \in Tasks |-> "none"]
    /\ i = [t \in Tasks |-> 0]
    /\ probes = [t \in Tasks |-> 0]
    /\ response = [t \in Tasks |-> None]
    /\ gets = [t \in Tasks |-> 0]
    /\ returned = Ret("start_server", "responsive", "true", 1, 1)
    /\ CommandsInit
    /\ queue_results = <<>>
    /\ queue_response = {}
    /\ path_env = BareHost
    /\ resolved = {}
    /\ UpgradeInit([upgrade_enabled |-> FALSE, upgrade_ring |-> 3, sndctl_server_url |-> FALSE])
    /\ \E muted \in {"on", "off"} : RouterInit(muted, DefaultMacrosFile)

NextToggle ==
    \/ \E t \in Tasks : toggle_mute(t)
    \/ \E t \in Tasks : ResumeToggleWaiter(t)
    \/ \E t \in Tasks : MuteReadDone(t)
    \/ \E t \in Tasks : MuteWriteDone(t)

SpecToggle == InitToggle /\ [][NextToggle]_vars

ToggleTypeOK ==
    /\ mute_state \in {"on", "off"}
    /\ mute_before \in {"on", "off"}
    /\ toggle_pc \in [Tasks -> {"idle", "read_wait", "read", "write_wait", "write"}]
    /\ current_state \in [Tasks -> {"", "on", "off"}]
    /\ request_lock \in Tasks \cup {Unlocked}
    /\ \A t \in Tasks : toggle_pc[t] \in {"read", "write"} <=> request_lock = t

\* C34: toggle_mute is atomic with respect to other commands.  While a task
\* is between its read of the mute state and its write of the inverted
\* state, no other task's command reaches the server; and once two
\* toggle_mute calls whose four commands all succeeded are over, the mute
\* state is what it was before them.
C34_ToggleAtomic ==
    /\ []((/\ \A t \in Tasks : toggle_pc[t] = "idle"
           /\ Len(toggle_log) = 4
           /\ \A k \in 1..4 : toggle_log[k].ok)
              => mute_state = mute_before)
    /\ [][\A t \in Tasks :
             (toggle_pc[t] \in {"write_wait", "write"} /\ Len(toggle_log') > Len(toggle_log))
                 => toggle_log'[Len(toggle_log')].task = t]_vars

\* ---------------------------------------------------------------------------
\* Concurrent perform_upgrade calls and the shared UpgradeState.

\* Task t has begun its check and has not yet ended its install.
MidPipeline(t) ==
    upgrade_pc[t] \in {"check", "wait_download", "download", "wait_install", "install"}

\* Task t runs the body of check_for_upgrade, download_package or
\* install_package, inside `async with self._lock`.
InStep(t) == upgrade_pc[t] \in {"check", "download", "install"}

\* C35: at most one upgrade pipeline is in progress at a time.  While one
\* call is between the start of its check and the end of its install, no
\* other call enters a check, download or install step; and no call runs
\* dpkg on the package file (and then deletes it) while another call is
\* between its download and its install.
C35_OnePipeline ==
    /\ [](\A t, u \in Tasks :
             t # u => ~(upgrade_pc[t] = "install" /\ upgrade_pc[u] = "wait_install"))
    /\ [][\A t, u \in Tasks :
             (t # u /\ MidPipeline(t) /\ upgrade_pc'[u] \in {"check", "download", "install"})
                 => upgrade_pc'[u] = upgrade_pc[u]]_vars

\* C36: the status is transient only while an operation runs.  When no
\* task is inside or waiting to enter check_for_upgrade, download_package
\* or install_package, the status is not CHECKING, DOWNLOADING or
\* INSTALLING; an operation that ends well and leaves its task waiting for
\* the next one leaves IDLE or COMPLETE, and a call that ends in one of the
\* operations leaves IDLE or FAILED.
C36_TransientOnlyWhileRunning ==
    /\ []((\A t \in Tasks : upgrade_pc[t] \in {"idle", "restart"})
             => upgrade_state.status \notin {"checking", "downloading", "installing"})
    /\ [][\A t \in Tasks :
             /\ (InStep(t) /\ upgrade_pc'[t] \in {"wait_download", "wait_install"})
                    => upgrade_state'.status \in {"idle", "complete"}
             /\ (InStep(t) /\ upgrade_pc'[t] = "idle")
                    => upgrade_state'.status \in {"idle", "failed"}]_vars

\* C37: error_message is set only if the status is FAILED.
C37_ErrorOnlyWhenFailed ==
    upgrade_state.status # "failed" => upgrade_state.error_message = ""

\* ---------------------------------------------------------------------------
\* The macro store (macro_service.py): the macros file is read, changed and
\* written back by save_macro, delete_macro and duplicate_macro.  The file
\* is modelled as its lines; descriptions and the metadata file are left
\* out, and no definition below holds an Apple Music link for
\* _clean_share_links to change.  _load_metadata and _save_metadata only
\* do synchronous file I/O, so the one suspension point of a call is the
\* GET inside reload_macros (the soco-cli server is up).

\* Bound on the macro calls of one run.
MaxMacroCalls == 2

\* The characters of the names below in code point order, as Python's
\* string comparison sees them.
CodeOrder == " #0123456789=" \o UpperCase \o "_" \o LowerCase

Ord(c) == CHOOSE k \in 1..Len(CodeOrder) : Char(CodeOrder, k) = c

\* a < b on Python strings.
RECURSIVE Before(_, _)
Before(a, b) ==
    IF b = "" THEN FALSE
    ELSE IF a = "" THEN TRUE
    ELSE IF Char(a, 1) = Char(b, 1) THEN Before(SubSeq(a, 2, Len(a)), SubSeq(b, 2, Len(b)))
    ELSE Ord(Char(a, 1)) < Ord(Char(b, 1))

\* sorted(macros, key=lambda x: x.name): a stable sort.
RECURSIVE SortedByName(_)
SortedByName(ms) ==
    IF ms = <<>> THEN <<>>
    ELSE LET rest == SortedByName(SubSeq(ms, 1, Len(ms) - 1))
             m == ms[Len(ms)]
             k == Cardinality({j \in 1..Len(rest) : ~Before(m.name, rest[j].name)})
         IN  SubSeq(rest, 1, k) \o <<m>> \o SubSeq(rest, k + 1, Len(rest))

\* One line of the file as get_all_macros reads it: blank lines, comments
\* and lines without "=" give nothing; the others are split at the first
\* "=" and both parts are stripped.
ParseLine(line) ==
    LET stripped == strip(line) IN
    IF stripped = "" \/ Char(stripped, 1) = "#" \/ ~Contains(stripped, "=") THEN <<>>
    ELSE LET k == CHOOSE j \in 1..Len(stripped) :
                      Char(stripped, j) = "=" /\ \A h \in 1..(j - 1) : Char(stripped, h) # "="
         IN  <<[name |-> strip(SubSeq(stripped, 1, k - 1)),
                definition |-> strip(SubSeq(stripped, k + 1, Len(stripped)))]>>

RECURSIVE get_all_macros(_)
get_all_macros(file) ==
    IF file = <<>> THEN <<>>
    ELSE ParseLine(Head(file)) \o get_all_macros(Tail(file))

\* The lines of f"{m.name} = {m.definition}\n\n" for each macro in turn.
RECURSIVE MacroLines(_)
MacroLines(ms) ==
    IF ms = <<>> THEN <<>>
    ELSE <<Head(ms).name \o " = " \o Head(ms).definition, "">> \o MacroLines(Tail(ms))

\* [m for m in macros if m.name.lower() != name.lower()]
Without(ms, name) == SelectSeq(ms, LAMBDA m : lower(m.name) # lower(name))

\* The content save_macro writes.
SaveContent(ms) ==
    <<"# SonosSoundHub Macros",
      "# Format: macro_name = speaker action args : speaker action args",
      "">> \o MacroLines(SortedByName(ms))

\* The content delete_macro writes.
DeleteContent(ms) == <<"# SonosSoundHub Macros", "">> \o MacroLines(SortedByName(ms))

\* get_macro: the first macro of that name ignoring case, as a sequence of
\* none or one.
get_macro(ms, name) ==
    LET found == SelectSeq(ms, LAMBDA m : lower(m.name) = lower(name))
    IN  IF found = <<>> THEN <<>> ELSE <<Head(found)>>

\* duplicate_macro's search for a free name, from `counter` on.
RECURSIVE NewName(_, _, _)
NewName(ms, base_name, counter) ==
    LET new_name == IF counter = 1 THEN base_name ELSE base_name \o "_" \o ToString(counter)
    IN  IF \E k \in 1..Len(ms) : lower(ms[k].name) = lower(new_name)
        THEN NewName(ms, base_name, counter + 1)
        ELSE new_name

MacroNames == {"wake", "Wake", "night", "a=b"}
MacroDefinitions == {"Den mute on"}

\* The macros file at the start: the default one, or the one left by an
\* earlier save_macro of "wake".
StoredFiles ==
    {DefaultMacrosFile, SaveContent(<<[name |-> "wake", definition |-> "Den play"]>>)}

MacroOthers ==
    <<supVars, dispVars, taskVars, returned, cmdVars, queueVars, pathVars, upgradeVars,
      toggleVars>>

\* A call that wrote the file after the GET of reload_macros, not before it.
FileAfter_WriteAfterReload(step, content, file) ==
    IF step = "reload" THEN content ELSE file

\* The macros file after a step of a call that computed `content`:
\* write_text comes straight after the content is built, before the first
\* suspension of the call; the step that ends reload_macros writes nothing.
FileAfter(step, content, file) ==
    IF step = "write" THEN content ELSE file

MacroReturn(fn, value) == [fn |-> fn, value |-> value]

\* write_text(content), _save_metadata, and reload_macros up to its GET.
WriteAndReload(t, fn, name, definition, content) ==
    /\ macros_file' = FileAfter("write", content, macros_file)
    /\ macro_pc' = [macro_pc EXCEPT ![t] = "reload"]
    /\ macro_call' = [macro_call EXCEPT ![t] = [fn |-> fn, name |-> name,
                                                definition |-> definition, content |-> content]]
    /\ macro_log' = Append(macro_log, [task |-> t, fn |-> fn, name |-> name,
                                       definition |-> definition, wrote |-> TRUE])
    /\ UNCHANGED macro_returned

\* A call that returns without writing and without suspending.
ReturnUnwritten(t, fn, name, value) ==
    /\ macro_returned' = MacroReturn(fn, value)
    /\ macro_log' = Append(macro_log, [task |-> t, fn |-> fn, name |-> name,
                                       definition |-> "", wrote |-> FALSE])
    /\ UNCHANGED <<macros_file, macro_pc, macro_call>>

save_macro(t, name, definition) ==
    /\ macro_pc[t] = "idle"
    /\ Len(macro_log) < MaxMacroCalls
    /\ LET macros == Append(Without(get_all_macros(macros_file), name),
                            [name |-> name, definition |-> definition])
       IN  WriteAndReload(t, "save_macro", name, definition, SaveContent(macros))
    /\ UNCHANGED MacroOthers

delete_macro(t, name) ==
    /\ macro_pc[t] = "idle"
    /\ Len(macro_log) < MaxMacroCalls
    /\ LET read == get_all_macros(macros_file)
           macros == Without(read, name)
       IN  IF Len(macros) = Len(read)
           THEN ReturnUnwritten(t, "delete_macro", name, "False")
           ELSE WriteAndReload(t, "delete_macro", name, "", DeleteContent(macros))
    /\ UNCHANGED MacroOthers

duplicate_macro(t, source_name) ==
    /\ macro_pc[t] = "idle"
    /\ Len(macro_log) < MaxMacroCalls
    /\ LET macros == get_all_macros(macros_file)
           source_macro == get_macro(macros, source_name)
       IN  IF source_macro = <<>>
           THEN ReturnUnwritten(t, "duplicate_macro", source_name, "None")
           ELSE LET new_name == NewName(macros, source_name \o "_copy", 1)
                    copy == [name |-> new_name, definition |-> source_macro[1].definition]
                IN  WriteAndReload(t, "duplicate_macro", new_name, copy.definition,
                                   SaveContent(Append(Without(macros, new_name), copy)))
    /\ UNCHANGED MacroOthers

\* The GET of "/macros/reload" ends; its result is ignored and the call
\* returns True (save_macro, delete_macro) or the copy (duplicate_macro).
MacroReloadDone(t) ==
    /\ macro_pc[t] = "reload"
    /\ macros_file' = FileAfter("reload", macro_call[t].content, macros_file)
    /\ macro_returned' = MacroReturn(macro_call[t].fn,
                             IF macro_call[t].fn = "duplicate_macro" THEN "Macro" ELSE "True")
    /\ macro_pc' = [macro_pc EXCEPT ![t] = "idle"]
    /\ macro_call' = [macro_call EXCEPT ![t] = NoMacroCall]
    /\ UNCHANGED <<macro_log, MacroOthers>>

InitMacros ==
    /\ process = 1
    /\ started_at = 1
    /\ alive = {1}
    /\ spawnCount = 1
    /\ start_lock = Unlocked
    /\ start_waiters = <<>>
    /\ is_starting = FALSE
    /\ request_lock = Unlocked
    /\ request_waiters = <<>>
    /\ pc = [t \in Tasks |-> "idle"]
    /\ op = [t \in Tasks |-> "none"]
    /\ i = [t \in Tasks |-> 0]
    /\ probes = [t \in Tasks |-> 0]
    /\ response = [t \in Tasks |-> None]
    /\ gets = [t \in Tasks |-> 0]
    /\ returned = Ret("start_server", "responsive", "true", 1, 1)
    /\ CommandsInit
    /\ queue_results = <<>>
    /\ queue_response = {}
    /\ path_env = BareHost
    /\ resolved = {}
    /\ UpgradeInit([upgrade_enabled |-> FALSE, upgrade_ring |-> 3, sndctl_server_url |-> FALSE])
    /\ \E file \in StoredFiles : RouterInit("off", file)

NextMacros ==
    \/ \E t \in Tasks, name \in MacroNames, definition \in MacroDefinitions :
          save_macro(t, name, definition)
    \/ \E t \in Tasks, name \in MacroNames : delete_macro(t, name)
    \/ \E t \in Tasks, name \in MacroNames : duplicate_macro(t, name)
    \/ \E t \in Tasks : MacroReloadDone(t)

SpecMacros == InitMacros /\ [][NextMacros]_vars

\* The stored macros whose name is `name` ignoring case.
Named(file, name) == SelectSeq(get_all_macros(file), LAMBDA m : lower(m.name) = lower(name))

MacrosTypeOK ==
    /\ macro_pc \in [Tasks -> {"idle", "reload"}]
    /\ Len(macro_log) <= MaxMacroCalls
    /\ \A t \in Tasks : macro_pc[t] = "idle" <=> macro_call[t] = NoMacroCall
    /\ macro_returned.value \in {"none", "True", "False", "None", "Macro"}

\* C38: save_macro, delete_macro and duplicate_macro keep macro names
\* unique ignoring case.  No two stored macros have the same name ignoring
\* case; right after save_macro(m) writes, the file holds exactly one macro
\* named m.name ignoring case, with m's definition; delete_macro of an
\* absent name returns False and leaves the file unchanged; and the name
\* duplicate_macro stores its copy under matched no macro of the file it
\* read.
C38_NamesUnique ==
    /\ [](\A j, k \in 1..Len(get_all_macros(macros_file)) :
             lower(get_all_macros(macros_file)[j].name)
                 = lower(get_all_macros(macros_file)[k].name) => j = k)
    /\ [][Len(macro_log') > Len(macro_log) =>
             LET call == macro_log'[Len(macro_log')]
             IN  /\ (call.fn = "save_macro") =>
                        /\ Len(Named(macros_file', call.name)) = 1
                        /\ Named(macros_file', call.name)[1].definition = call.definition
                 /\ (call.fn = "delete_macro" /\ Named(macros_file, call.name) = <<>>) =>
                        /\ macro_returned' = MacroReturn("delete_macro", "False")
                        /\ macros_file' = macros_file
                 /\ (call.fn = "duplicate_macro" /\ call.wrote) =>
                        /\ Named(macros_file, call.name) = <<>>
                        /\ Len(Named(macros_file', call.name)) = 1]_vars

\* A call whose line get_all_macros reads back as it was written.
Storable(call) ==
    ParseLine(call.name \o " = " \o call.definition)
        = <<[name |-> call.name, definition |-> call.definition]>>

\* What the k-th call of the log stored is what the file holds under its
\* name: the macro for a save or a copy, nothing for a delete.
Reflected(k) ==
    LET call == macro_log[k] IN
    IF call.fn = "delete_macro"
    THEN Named(macros_file, call.name) = <<>>
    ELSE Named(macros_file, call.name)
             = <<[name |-> call.name, definition |-> call.definition]>>

\* The k-th call of the log is the last one that wrote under its name.
LastOnName(k) ==
    \A j \in (k + 1)..Len(macro_log) :
        macro_log[j].wrote => lower(macro_log[j].name) # lower(macro_log[k].name)

\* C39: concurrent macro writes lose no update.  Every change of the file
\* is made in the step in which the writing call read it, and once every
\* call has ended the file reflects, for each name, the last save_macro,
\* duplicate_macro or delete_macro that wrote under it.
C39_NoLostUpdate ==
    /\ []((\A t \in Tasks : macro_pc[t] = "idle") =>
             \A k \in 1..Len(macro_log) :
                 (macro_log[k].wrote /\ Storable(macro_log[k]) /\ LastOnName(k))
                     => Reflected(k))
    /\ [][macros_file' # macros_file => Len(macro_log') > Len(macro_log)]_vars

\* A save_macro and a delete_macro of another name are both awaiting
\* reload_macros, and the file reflects both.
C39_Witness ==
    \E t, u \in Tasks :
        /\ macro_pc[t] = "reload" /\ macro_call[t].fn = "save_macro"
        /\ macro_pc[u] = "reload" /\ macro_call[u].fn = "delete_macro"
        /\ lower(macro_call[t].name) # lower(macro_call[u].name)
        /\ Named(macros_file, macro_call[t].name)
               = <<[name |-> macro_call[t].name, definition |-> macro_call[t].definition]>>
        /\ Named(macros_file, macro_call[u].name) = <<>>

====
